---- MODULE Spec2Model ----
(***************************************************************************)
(* The client layer of grantha-translator-magic: extractTextFromImage,     *)
(* transliterateText and translateText of src/lib/imageProcessing.ts, run   *)
(* against a transport (fetch) whose answers are chosen by the environment. *)
(* Two invocations may be in flight side by side (SpecConc).  The character *)
(* recognition section of the page, with the classifier behind it, is       *)
(* SpecPredict.  The options-free variants of the client run beside the     *)
(* full functions in SpecVariant.  TransliterationForm and the page are      *)
(* SpecForm, SpecClicks and SpecDownload, the text extraction section is     *)
(* SpecExtraction, and SpecLive has the handlers under a fair transport.     *)
(*                                                                         *)
(* A JavaScript string whose content matters is a sequence of pieces: a    *)
(* piece is one character of user text ("a", " ", "&") or one literal       *)
(* fragment of the source ("&useDandas=true", "HTTP error! status: ").      *)
(* The string is the concatenation of its pieces.  A JavaScript object is  *)
(* a record; a key the object does not have is a field the record lacks.   *)
(***************************************************************************)
EXTENDS Integers, Sequences, FiniteSets, TLC

VARIABLES
    invocation, \* the function the caller invoked, and its arguments
    stack,      \* the pending async calls, outermost first; the last one runs
    fetches,    \* the transport's record of the requests handed to fetch
    outcome,    \* "none" | "pending" | "returned": how the invocation a
                \* behaviour follows from its call to its return stands
    result,     \* the object the outermost call returned
    issued,     \* the places, in fetches, of the requests of this invocation
    parked,     \* a second invocation, in flight at the same time: what the
                \* event loop keeps of it while the first one runs
    \* the character recognition section (ImageUploadSection) ...
    selectedFile,   \* useState (file): the file selected
    imagePreview,   \* useState: the data URL shown
    prediction,     \* useState: the character shown, with its probability
    isModelLoaded,  \* useState
    isLoading,      \* useState
    isPredicting,   \* useState
    initModel,      \* where initModel, run on mount, stands
    reads,          \* the files a FileReader is reading
    toasted,        \* the title of the toast shown last
    \* ... and the classifier behind it
    model,          \* the classifier handle loadModel keeps for the session
    predicts,       \* the calls of predictCharacter, in order
    \* the rest of the page
    form,           \* the state of TransliterationForm (its useState hooks)
    processedText,  \* useState of the page (Index)
    downloads,      \* the files downloadTextAsFile has made the browser save
    extraction,     \* the state of the text extraction section, and the
                    \* files its FileReaders are reading
    variant         \* an options-free variant of the client, run in step
                    \* with the full one

clientVars == <<invocation, stack, fetches, outcome, result, issued, parked>>
sectionVars == <<selectedFile, imagePreview, prediction, isModelLoaded, isLoading,
                 isPredicting, initModel, reads, toasted, model, predicts>>
\* sectionVars without the toast, which the whole page shares
sectionState == <<selectedFile, imagePreview, prediction, isModelLoaded, isLoading,
                  isPredicting, initModel, reads, model, predicts>>
pageVars == <<form, processedText, downloads, extraction, variant>>
vars == <<clientVars, sectionVars, pageVars>>

----------------------------------------------------------------------------
(* Bounds of the model *)

\* longest text a caller passes
MaxLen == 2

\* the calls of predictCharacter in one behaviour
MaxPredicts == 2

----------------------------------------------------------------------------
(* Strings *)

\* the characters of user text: one white space, one unreserved character,
\* one character reserved in URLs
Chars == {" ", "a", "&"}

WhiteSpace == {" "}

Texts == UNION {[1..n -> Chars] : n \in 0..MaxLen}

\* String.prototype.trim
RECURSIVE trimStart(_)
trimStart(s) ==
    IF s = <<>> THEN s
    ELSE IF Head(s) \in WhiteSpace THEN trimStart(Tail(s)) ELSE s

RECURSIVE trimEnd(_)
trimEnd(s) ==
    IF s = <<>> THEN s
    ELSE IF s[Len(s)] \in WhiteSpace THEN trimEnd(SubSeq(s, 1, Len(s) - 1)) ELSE s

trim(s) == trimEnd(trimStart(s))

\* encodeURIComponent: unreserved characters stay, the others become %XX
RECURSIVE encodeURIComponent(_)
encodeURIComponent(s) ==
    IF s = <<>> THEN <<>>
    ELSE (CASE Head(s) = " " -> <<"%", "2", "0">>
            [] Head(s) = "&" -> <<"%", "2", "6">>
            [] OTHER -> <<Head(s)>>) \o encodeURIComponent(Tail(s))

\* the value undefined, where a string is expected: a piece that is no character
Undefined == <<"undefined">>

\* ToBoolean of a string or undefined
Truthy(v) == v # <<>> /\ v # Undefined

----------------------------------------------------------------------------
(* Objects *)

\* `obj.key`, undefined when the object has no such key
Get(obj, key) == IF key \in DOMAIN obj THEN obj[key] ELSE Undefined

\* An options object is the sequence of its <<key, value>> entries in
\* insertion order (handleOptionChange appends a key the first time it is
\* set); a key occurs at most once.
OptionValue(options, key) ==
    \E i \in 1..Len(options) : options[i] = <<key, TRUE>>

\* TRANSLITERATION_OPTIONS: the recognized flags, in the order the form lists
\* them
TRANSLITERATION_OPTIONS ==
    <<"disableUu", "subscriptNumerals", "markFirstVarga", "removeApostrophe",
      "removeDiacriticNumerals", "oldOrthography", "granthaVisarga",
      "disableIlm", "contextualNna", "onlyWordFinalNna", "nativeNumerals",
      "useDandas", "preserveSource">>

Flags == {TRANSLITERATION_OPTIONS[i] : i \in 1..Len(TRANSLITERATION_OPTIONS)}

\* the entries of an options object holding the keys `keys` in the order of
\* `order`, a key being true exactly when it is in `on`
RECURSIVE Entries(_, _, _)
Entries(order, keys, on) ==
    IF order = <<>> THEN <<>>
    ELSE (IF Head(order) \in keys
          THEN << <<Head(order), Head(order) \in on>> >>
          ELSE <<>>) \o Entries(Tail(order), keys, on)

Reverse(s) == [i \in 1..Len(s) |-> s[Len(s) + 1 - i]]

\* the orders in which the model sets the flags: as listed, backwards, and
\* the second half before the first
KeyOrders ==
    {TRANSLITERATION_OPTIONS, Reverse(TRANSLITERATION_OPTIONS),
     SubSeq(TRANSLITERATION_OPTIONS, 8, 13) \o SubSeq(TRANSLITERATION_OPTIONS, 1, 7)}

\* the option objects of the invocations of the main specification
FormOptions ==
    { <<>>,
      << <<"useDandas", TRUE>> >>,
      << <<"preserveSource", TRUE>>, <<"oldOrthography", FALSE>>, <<"disableUu", TRUE>> >> }

----------------------------------------------------------------------------
(* transliterateText: the request URL *)

\* `if (options.flag) apiUrl += token`
AppendIf(apiUrl, options, flag, token) ==
    IF OptionValue(options, flag) THEN Append(apiUrl, token) ELSE apiUrl

\* a plausible bug: the tokens follow the keys of the options object
RECURSIVE apiUrlByKeys(_, _, _, _)
apiUrlByKeys(text, sourceScript, targetScript, options) ==
    IF options = <<>>
    THEN <<"https://aksharamukha-plugin.appspot.com/api/public?source=",
           sourceScript, "&target=", targetScript, "&text=">>
         \o encodeURIComponent(text)
    ELSE LET n    == Len(options)
             rest == apiUrlByKeys(text, sourceScript, targetScript,
                                  SubSeq(options, 1, n - 1))
         IN  IF options[n][2]
             THEN Append(rest, "&" \o options[n][1] \o "=true")
             ELSE rest

apiUrl(text, sourceScript, targetScript, options) ==
    LET u0  == <<"https://aksharamukha-plugin.appspot.com/api/public?source=",
                 sourceScript, "&target=", targetScript, "&text=">>
               \o encodeURIComponent(text)
        u1  == AppendIf(u0, options, "disableUu", "&disableUu=true")
        u2  == AppendIf(u1, options, "subscriptNumerals", "&subscriptNumerals=true")
        u3  == AppendIf(u2, options, "markFirstVarga", "&markFirstVarga=true")
        u4  == AppendIf(u3, options, "removeApostrophe", "&removeApostrophe=true")
        u5  == AppendIf(u4, options, "removeDiacriticNumerals", "&removeDiacriticNumerals=true")
        u6  == AppendIf(u5, options, "oldOrthography", "&oldOrthography=true")
        u7  == AppendIf(u6, options, "granthaVisarga", "&granthaVisarga=true")
        u8  == AppendIf(u7, options, "disableIlm", "&disableIlm=true")
        u9  == AppendIf(u8, options, "contextualNna", "&contextualNna=true")
        u10 == AppendIf(u9, options, "onlyWordFinalNna", "&onlyWordFinalNna=true")
        u11 == AppendIf(u10, options, "nativeNumerals", "&nativeNumerals=true")
        u12 == AppendIf(u11, options, "useDandas", "&useDandas=true")
        u13 == AppendIf(u12, options, "preserveSource", "&preserveSource=true")
    IN  u13

----------------------------------------------------------------------------
(* The values of the requests *)

\* SCRIPT_OPTIONS
Scripts == {"Grantha", "Tamil", "HK", "Devanagari"}

\* LANGUAGE_OPTIONS
Languages == {"en", "ta", "hi", "sa", "fr", "es", "de", "Grantha"}

\* the target languages of the model's invocations
TargetLanguages == {"ta", "en"}

\* the image files of the model's invocations, and no file
Files == {"leaf.png", "page.jpg"}
NoFile == "null"

\* what the transport may answer: a status line ...
StatusText(status) ==
    CASE status = 200 -> "OK"
      [] status = 299 -> ""
      [] status = 404 -> "Not Found"
      [] status = 500 -> "Internal Server Error"

Responses == {[status |-> st, statusText |-> StatusText(st)] : st \in {200, 299, 404, 500}}

\* ... a body ...
Bodies == {<<>>, <<"k">>, <<" ", "k", " ">>}

\* ... or a rejection: the thrown value is an Error (TypeError, SyntaxError)
\* or, from a transport that rejects with something else, no Error at all
Thrown ==
    { [isError |-> TRUE, message |-> <<"Failed to fetch">>],
      [isError |-> TRUE, message |-> <<"Unexpected token < in JSON at position 0">>],
      [isError |-> FALSE, message |-> <<"timeout">>] }

\* the JSON documents of the OCR service and of the translation service
OcrJson == {[grantha_text |-> b] : b \in Bodies} \cup {[detail |-> <<"k">>]}
TranslateJson == {[translatedText |-> b] : b \in Bodies} \cup {[error |-> <<"k">>]}

\* `new Error(message)`
Error(message) == [isError |-> TRUE, message |-> message]

\* Response.ok
ok(response) == response.status >= 200 /\ response.status <= 299

API_ENDPOINT == <<"https://granthabackend.onrender.com/extract_text/">>
TRANSLATE_ENDPOINT == <<"https://libretranslate.de/translate">>

NoBody == <<>>
NoResponse == [status |-> 0, statusText |-> ""]

\* A call to fetch, as the transport records it: the request, how far its
\* answer has got ("inflight", then "body" once the status line is in, then
\* "done"), and the answer: the status (0 without one), the value thrown if
\* fetch or the reading of the body rejected, the body if it was delivered.
Request(method, url, body) ==
    [method |-> method, url |-> url, body |-> body, state |-> "inflight",
     status |-> 0, rejected |-> FALSE, thrown |-> <<>>,
     delivered |-> FALSE, payload |-> <<>>]

\* the frame of an async function suspended at an await
Frame(fn, args, pc, req) ==
    [fn |-> fn, args |-> args, pc |-> pc, req |-> req,
     response |-> NoResponse, sub |-> <<>>, textToTranslate |-> <<>>]

----------------------------------------------------------------------------
(* Returning from an async function, and throwing in one *)

\* Frame i returns v.  The outermost call hands v to its caller; an inner
\* call hands it to the frame that awaits it, which resumes.
Return(i, v) ==
    IF i = 1
    THEN /\ stack' = SubSeq(stack, 2, Len(stack))
         /\ outcome' = "returned"
         /\ result' = v
         /\ UNCHANGED invocation
    ELSE /\ stack' = SubSeq([stack EXCEPT ![i - 1].sub = v,
                                          ![i - 1].pc = "resume"], 1, i - 1)
                     \o SubSeq(stack, i + 1, Len(stack))
         /\ UNCHANGED <<invocation, outcome, result>>

\* a plausible bug: the catch block passes the message of the error on
transliterateCatchMessage(error) ==
    [transliteratedText |-> <<>>, error |-> error.message]

\* the catch block of transliterateText
transliterateCatch(error) ==
    [transliteratedText |-> <<>>,
     error |-> <<"An error occurred during transliteration. Please try again.">>]

\* a plausible bug: the catch block passes the message of the error on
translateCatchMessage(error) ==
    [translatedText |-> <<>>, error |-> error.message]

\* the catch block of translateText
translateCatch(error) ==
    [translatedText |-> <<>>,
     error |-> <<"An error occurred during translation. Please try again.">>]

\* a plausible bug: the catch block always answers with its own message
extractCatchFixed(error) ==
    [text |-> <<>>,
     error |-> <<"Failed to extract text. Please try another image.">>]

\* a plausible bug: the catch block hands the message out as the text too
extractCatchWithText(error) ==
    [text |-> error.message, error |-> error.message]

\* the catch block of extractTextFromImage
extractCatch(error) ==
    [text |-> <<>>,
     error |-> IF error.isError
               THEN error.message
               ELSE <<"Failed to extract text. Please try another image.">>]

\* the catch block of fn
Catch(fn, error) ==
    CASE fn = "transliterateText" -> transliterateCatch(error)
      [] fn = "translateText" -> translateCatch(error)
      [] fn = "extractTextFromImage" -> extractCatch(error)

\* a plausible bug: the reading of the body is left outside the try block
inTryFetchOnly(frame) == frame.pc \in {"fetch", "awaitSub", "resume"}

\* The statement frame is suspended at lies in the try block of its function.
\* In all three functions `try {` opens before the first await and the catch
\* block closes the function, so every await does.
inTry(frame) == frame.pc \in {"fetch", "body", "awaitSub", "resume"}

RECURSIVE Handler(_)
\* the frame whose catch block an error thrown in frame i reaches: i itself,
\* or the nearest frame awaiting it from within a try block; 0 when none
Handler(i) ==
    IF i = 0 THEN 0
    ELSE IF inTry(stack[i]) THEN i
    ELSE Handler(i - 1)

\* Frame i throws error.  The frames above the handler are unwound; without
\* a handler the promise of the outermost call rejects.
Throw(i, error) ==
    LET h == Handler(i)
    IN  IF h = 0
        THEN /\ stack' = <<>>
             /\ outcome' = "rejected"
             /\ result' = error
             /\ UNCHANGED invocation
        ELSE LET v == Catch(stack[h].fn, error)
             IN  IF h = 1
                 THEN /\ stack' = <<>>
                      /\ outcome' = "returned"
                      /\ result' = v
                      /\ UNCHANGED invocation
                 ELSE /\ stack' = SubSeq([stack EXCEPT ![h - 1].sub = v,
                                                       ![h - 1].pc = "resume"],
                                         1, h - 1)
                      /\ UNCHANGED <<invocation, outcome, result>>

\* a plausible bug: the answer that reaches a frame is the answer to the
\* request made last, whoever made it
latestRequest(i) == Len(fetches)

\* `await fetch(...)`, `await response.text()`: the promise frame i awaits is
\* the one of the request the frame made itself
awaitedRequest(i) == stack[i].req

\* the transport's record once the request frame i awaits ...
\* ... was answered with a status line
Answered(i, response) ==
    [fetches EXCEPT ![awaitedRequest(i)].state = IF ok(response) THEN "body" ELSE "done",
                    ![awaitedRequest(i)].status = response.status]

\* ... was rejected, or the reading of its body was
Rejected(i, error) ==
    [fetches EXCEPT ![awaitedRequest(i)].state = "done",
                    ![awaitedRequest(i)].rejected = TRUE,
                    ![awaitedRequest(i)].thrown = error]

\* ... had its body read
Delivered(i, payload) ==
    [fetches EXCEPT ![awaitedRequest(i)].state = "done",
                    ![awaitedRequest(i)].delivered = TRUE,
                    ![awaitedRequest(i)].payload = payload]

----------------------------------------------------------------------------
(* transliterateText *)

\* a plausible bug: the guard forgets to trim
isEmptyUntrimmed(text) == ~Truthy(text)

\* `!text.trim()`
isEmpty(text) == ~Truthy(trim(text))

\* `options = {}`: the default of the parameter
optionsOf(args) == IF "options" \in DOMAIN args THEN args.options ELSE <<>>

\* a plausible bug: the body is trimmed
transliterateSuccessTrimmed(body) == [transliteratedText |-> trim(body)]

\* `return { transliteratedText: result }`
transliterateSuccess(body) == [transliteratedText |-> body]

\* The function up to its first await: what it returns at once, or the
\* request it hands to fetch.
transliterateStart(args) ==
    IF isEmpty(args.text)
    THEN [returns |-> TRUE,
          value |-> [transliteratedText |-> <<>>,
                     error |-> <<"Please enter some text to transliterate">>]]
    ELSE [returns |-> FALSE,
          request |-> Request("GET",
                              apiUrl(args.text, args.sourceScript,
                                     args.targetScript, optionsOf(args)),
                              NoBody)]

\* a caller invokes transliterateText
CallTransliterateText(args) ==
    /\ outcome = "none"
    /\ invocation' = [fn |-> "transliterateText", args |-> args]
    /\ LET s == transliterateStart(args)
       IN  IF s.returns
           THEN /\ stack' = <<>>
                /\ fetches' = fetches
                /\ outcome' = "returned"
                /\ result' = s.value
           ELSE /\ stack' = <<Frame("transliterateText", args, "fetch",
                                    Len(fetches) + 1)>>
                /\ fetches' = Append(fetches, s.request)
                /\ outcome' = "pending"
                /\ result' = <<>>

\* a plausible bug: a rejected fetch is tried again
TransliterateFetchRetried(i, error) ==
    /\ stack[i].fn = "transliterateText" /\ stack[i].pc = "fetch"
    /\ fetches' = Append(Rejected(i, error),
                         Request("GET", fetches[stack[i].req].url, NoBody))
    /\ stack' = [stack EXCEPT ![i].req = Len(fetches) + 1]
    /\ UNCHANGED <<invocation, outcome, result>>

\* `await fetch(apiUrl)` rejects
TransliterateFetchRejected(i, error) ==
    /\ stack[i].fn = "transliterateText" /\ stack[i].pc = "fetch"
    /\ fetches' = Rejected(i, error)
    /\ Throw(i, error)

\* `await fetch(apiUrl)` resolves: the status check, then response.text()
TransliterateFetchResolved(i, response) ==
    /\ stack[i].fn = "transliterateText" /\ stack[i].pc = "fetch"
    /\ IF ~ok(response)
       THEN /\ fetches' = Answered(i, response)
            /\ Throw(i, Error(<<"HTTP error! status: ", ToString(response.status)>>))
       ELSE /\ fetches' = Answered(i, response)
            /\ stack' = [stack EXCEPT ![i].pc = "body", ![i].response = response]
            /\ UNCHANGED <<invocation, outcome, result>>

\* `await response.text()` resolves
TransliterateTextResolved(i, body) ==
    /\ stack[i].fn = "transliterateText" /\ stack[i].pc = "body"
    /\ fetches' = Delivered(i, body)
    /\ Return(i, transliterateSuccess(body))

\* `await response.text()` rejects
TransliterateTextRejected(i, error) ==
    /\ stack[i].fn = "transliterateText" /\ stack[i].pc = "body"
    /\ fetches' = Rejected(i, error)
    /\ Throw(i, error)

----------------------------------------------------------------------------
(* translateText *)

\* a plausible bug: Sanskrit is forgotten
intermediateScriptHindiOnly(sourceLanguage) ==
    IF sourceLanguage = "hi" THEN "Devanagari" ELSE "Tamil"

\* the script Grantha text is transliterated to before it is translated
intermediateScript(sourceLanguage) ==
    IF sourceLanguage = "hi" \/ sourceLanguage = "sa" THEN "Devanagari" ELSE "Tamil"

\* `sourceScript === "Grantha"`
isGrantha(args) == "sourceScript" \in DOMAIN args /\ args.sourceScript = "Grantha"

\* the arguments of the transliteration sub-call
subCallArgs(args) ==
    [text |-> args.text, sourceScript |-> "Grantha",
     targetScript |-> intermediateScript(args.sourceLanguage)]

\* a plausible bug: the text of the caller is sent, whatever the sub-call gave
translateRequestOriginal(textToTranslate, args) ==
    Request("POST", TRANSLATE_ENDPOINT,
            [q |-> args.text, source |-> args.sourceLanguage,
             target |-> args.targetLanguage, format |-> "text"])

\* the POST of the translation
translateRequest(textToTranslate, args) ==
    Request("POST", TRANSLATE_ENDPOINT,
            [q |-> textToTranslate, source |-> args.sourceLanguage,
             target |-> args.targetLanguage, format |-> "text"])

\* a plausible bug: the failure of the sub-call is reported as a failure of
\* the translation
subCallFailureRenamed(transliterationResult) ==
    [translatedText |-> <<>>,
     error |-> <<"An error occurred during translation. Please try again.">>]

\* `return { translatedText: "", error: transliterationResult.error }`
subCallFailure(transliterationResult) ==
    [translatedText |-> <<>>, error |-> transliterationResult.error]

\* a plausible bug: the sub-call is not awaited
notAwaited(frame) == frame.pc \in {"awaitSub", "resume"}

\* `await transliterateText(...)`: the sub-call has returned
awaited(frame) == frame.pc = "resume"

\* `return { translatedText: result.translatedText }`
translateSuccess(json) == [translatedText |-> Get(json, "translatedText")]

\* a caller invokes translateText
CallTranslateText(args) ==
    /\ outcome = "none"
    /\ invocation' = [fn |-> "translateText", args |-> args]
    /\ IF isEmpty(args.text)
       THEN /\ stack' = <<>>
            /\ fetches' = fetches
            /\ outcome' = "returned"
            /\ result' = [translatedText |-> <<>>,
                          error |-> <<"Please enter some text to translate">>]
       ELSE /\ outcome' = "pending"
            /\ result' = <<>>
            /\ IF isGrantha(args)
               THEN LET s == transliterateStart(subCallArgs(args))
                    IN  IF s.returns
                        THEN /\ stack' = <<[Frame("translateText", args, "resume", 0)
                                               EXCEPT !.sub = s.value]>>
                             /\ fetches' = fetches
                        ELSE /\ stack' = <<Frame("translateText", args, "awaitSub", 0),
                                           Frame("transliterateText",
                                                 subCallArgs(args), "fetch",
                                                 Len(fetches) + 1)>>
                             /\ fetches' = Append(fetches, s.request)
               ELSE /\ stack' = <<[Frame("translateText", args, "fetch",
                                         Len(fetches) + 1)
                                      EXCEPT !.textToTranslate = args.text]>>
                    /\ fetches' = Append(fetches, translateRequest(args.text, args))

\* translateText goes on after the sub-call
TranslateResume(i) ==
    /\ stack[i].fn = "translateText" /\ awaited(stack[i])
    /\ LET transliterationResult == stack[i].sub
       IN  IF Truthy(Get(transliterationResult, "error"))
           THEN /\ fetches' = fetches
                /\ Return(i, subCallFailure(transliterationResult))
           ELSE LET textToTranslate ==
                        Get(transliterationResult, "transliteratedText")
                IN  /\ fetches' = Append(fetches,
                                         translateRequest(textToTranslate,
                                                          stack[i].args))
                    /\ stack' = [stack EXCEPT
                                    ![i].pc = "fetch",
                                    ![i].req = Len(fetches) + 1,
                                    ![i].textToTranslate = textToTranslate]
                    /\ UNCHANGED <<invocation, outcome, result>>

\* `await fetch(...)` rejects
TranslateFetchRejected(i, error) ==
    /\ stack[i].fn = "translateText" /\ stack[i].pc = "fetch"
    /\ fetches' = Rejected(i, error)
    /\ Throw(i, error)

\* `await fetch(...)` resolves: the status check, then response.json()
TranslateFetchResolved(i, response) ==
    /\ stack[i].fn = "translateText" /\ stack[i].pc = "fetch"
    /\ IF ~ok(response)
       THEN /\ fetches' = Answered(i, response)
            /\ Throw(i, Error(<<"HTTP error! status: ", ToString(response.status)>>))
       ELSE /\ fetches' = Answered(i, response)
            /\ stack' = [stack EXCEPT ![i].pc = "body", ![i].response = response]
            /\ UNCHANGED <<invocation, outcome, result>>

\* `await response.json()` resolves
TranslateJsonResolved(i, json) ==
    /\ stack[i].fn = "translateText" /\ stack[i].pc = "body"
    /\ fetches' = Delivered(i, json)
    /\ Return(i, translateSuccess(json))

\* `await response.json()` rejects
TranslateJsonRejected(i, error) ==
    /\ stack[i].fn = "translateText" /\ stack[i].pc = "body"
    /\ fetches' = Rejected(i, error)
    /\ Throw(i, error)

----------------------------------------------------------------------------
(* extractTextFromImage *)

\* a plausible bug: the text field is passed on as it is, also when absent
extractSuccessRaw(json) == [text |-> Get(json, "grantha_text")]

\* `return { text: result.grantha_text || "" }`
extractSuccess(json) ==
    [text |-> IF Truthy(Get(json, "grantha_text")) THEN json.grantha_text ELSE <<>>]

\* a caller invokes extractTextFromImage
CallExtractTextFromImage(file) ==
    /\ outcome = "none"
    /\ invocation' = [fn |-> "extractTextFromImage", args |-> [file |-> file]]
    /\ IF file = NoFile
       THEN /\ stack' = <<>>
            /\ fetches' = fetches
            /\ outcome' = "returned"
            /\ result' = extractCatch(Error(<<"No file provided">>))
       ELSE /\ stack' = <<Frame("extractTextFromImage", [file |-> file], "fetch",
                                Len(fetches) + 1)>>
            /\ fetches' = Append(fetches,
                                 Request("POST", API_ENDPOINT, [image |-> file]))
            /\ outcome' = "pending"
            /\ result' = <<>>

\* `await fetch(API_ENDPOINT, ...)` rejects
ExtractFetchRejected(i, error) ==
    /\ stack[i].fn = "extractTextFromImage" /\ stack[i].pc = "fetch"
    /\ fetches' = Rejected(i, error)
    /\ Throw(i, error)

\* `await fetch(API_ENDPOINT, ...)` resolves: the status check, then
\* response.json()
ExtractFetchResolved(i, response) ==
    /\ stack[i].fn = "extractTextFromImage" /\ stack[i].pc = "fetch"
    /\ IF ~ok(response)
       THEN /\ fetches' = Answered(i, response)
            /\ Throw(i, Error(<<"API error: ", ToString(response.status), " ",
                                response.statusText>>))
       ELSE /\ fetches' = Answered(i, response)
            /\ stack' = [stack EXCEPT ![i].pc = "body", ![i].response = response]
            /\ UNCHANGED <<invocation, outcome, result>>

\* `await response.json()` resolves
ExtractJsonResolved(i, json) ==
    /\ stack[i].fn = "extractTextFromImage" /\ stack[i].pc = "body"
    /\ fetches' = Delivered(i, json)
    /\ Return(i, extractSuccess(json))

\* `await response.json()` rejects
ExtractJsonRejected(i, error) ==
    /\ stack[i].fn = "extractTextFromImage" /\ stack[i].pc = "body"
    /\ fetches' = Rejected(i, error)
    /\ Throw(i, error)

----------------------------------------------------------------------------
(* The classifier: loadModel and predictCharacter *)

NoModel == "null"
Classifier == "classifier"

\* the handle loadModel leaves behind when it resolves to loaded
loadModel(loaded) == IF loaded THEN Classifier ELSE model

\* the candidates an inference yields: probabilities in percent
Candidate(className, probability) ==
    [className |-> className, probability |-> probability]

CandidateLists ==
    { <<Candidate("ka", 30), Candidate("ma", 70)>>,
      <<Candidate("nga", 70), Candidate("ma", 70)>>,
      <<Candidate("zha", 90)>> }

\* the table from labels to characters (code points of Tamil letters)
LabelTable == [ka |-> "U+0B95", ma |-> "U+0BAE", nga |-> "U+0B99"]

\* a label without an entry is passed on as it is
characterOf(className) ==
    IF className \in DOMAIN LabelTable THEN LabelTable[className] ELSE className

RECURSIVE maxProbability(_)
\* the candidate of maximum probability, the first one among equals
maxProbability(candidates) ==
    IF Len(candidates) = 1 THEN candidates[1]
    ELSE LET rest == maxProbability(Tail(candidates))
         IN  IF candidates[1].probability >= rest.probability
             THEN candidates[1] ELSE rest

\* what predictCharacter returns after the inference
predictSuccess(candidates) ==
    LET best == maxProbability(candidates)
    IN  [character |-> characterOf(best.className), probability |-> best.probability]

\* predictCharacter up to its first await: it fails at once without a model
predictStart(imageHandle) ==
    IF model = NoModel
    THEN [returns |-> TRUE, value |-> [error |-> <<"Model not loaded">>]]
    ELSE [returns |-> FALSE]

\* a call of predictCharacter, as `predicts` keeps it
Predict(caller, imageHandle, s) ==
    [caller |-> caller, image |-> imageHandle, loaded |-> model # NoModel,
     state |-> IF s.returns THEN "settled" ELSE "inference",
     inferred |-> ~s.returns,
     result |-> IF s.returns THEN s.value ELSE <<>>]

----------------------------------------------------------------------------
(* ImageUploadSection: character recognition *)

NoImage == "null"
SectionFiles == Files \cup {"notes.txt"}

\* `selectedFile.type.includes("image/")`
isImage(picked) == picked \in Files

\* `reader.readAsDataURL(selectedFile)`
dataURL(picked) == "data:" \o picked

\* the component as mounted: the initial state of its hooks
Mounted ==
    /\ selectedFile = NoFile
    /\ imagePreview = NoImage
    /\ prediction = <<>>
    /\ isModelLoaded = FALSE
    /\ isLoading = FALSE
    /\ isPredicting = FALSE
    /\ initModel = "effect"
    /\ reads = {}
    /\ toasted = ""
    /\ model = NoModel
    /\ predicts = <<>>

\* the effect runs initModel up to `await loadModel()`
InitModel ==
    /\ initModel = "effect"
    /\ isLoading' = TRUE
    /\ initModel' = "await"
    /\ UNCHANGED <<selectedFile, imagePreview, prediction, isModelLoaded, isPredicting,
                   reads, toasted, model, predicts>>
    /\ UNCHANGED <<clientVars, pageVars>>

\* loadModel resolves, and initModel goes on
InitModelResume(loaded) ==
    /\ initModel = "await"
    /\ model' = loadModel(loaded)
    /\ isModelLoaded' = loaded
    /\ isLoading' = FALSE
    /\ toasted' = IF loaded THEN "Model Loaded" ELSE "Model Loading Failed"
    /\ initModel' = "done"
    /\ UNCHANGED <<selectedFile, imagePreview, prediction, isPredicting, reads, predicts>>
    /\ UNCHANGED <<clientVars, pageVars>>

\* the file input changes; the input is rendered once isLoading is false
handleFileChange(picked) ==
    /\ ~isLoading
    /\ IF picked = NoFile
       THEN UNCHANGED <<selectedFile, prediction, reads, toasted>>
       ELSE IF ~isImage(picked)
       THEN /\ toasted' = "Invalid File"
            /\ UNCHANGED <<selectedFile, prediction, reads>>
       ELSE /\ selectedFile' = picked
            /\ prediction' = <<>>
            /\ reads' = reads \cup {picked}
            /\ UNCHANGED toasted
    /\ UNCHANGED <<imagePreview, isModelLoaded, isLoading, isPredicting,
                   initModel, model, predicts>>
    /\ UNCHANGED <<clientVars, pageVars>>

\* `reader.onload`
readerOnload(picked) ==
    /\ picked \in reads
    /\ reads' = reads \ {picked}
    /\ imagePreview' = dataURL(picked)
    /\ UNCHANGED <<selectedFile, prediction, isModelLoaded, isLoading, isPredicting,
                   initModel, toasted, model, predicts>>
    /\ UNCHANGED <<clientVars, pageVars>>

\* `imageRef.current`: the img element, rendered when there is a preview and
\* the section is not loading
imageRef ==
    IF imagePreview # NoImage /\ ~isLoading THEN imagePreview ELSE NoImage

\* a plausible bug: handlePredict does not look at isModelLoaded
modelReadyAlways == TRUE

\* `if (!isModelLoaded) { ...; return; }`
modelReady == isModelLoaded

\* handlePredict, up to `await predictCharacter(imageRef.current)`, and past
\* it when predictCharacter returns at once.  The handler is taken as it
\* stands: it may be invoked in every state, also where the button that
\* invokes it is disabled (`!isModelLoaded || isPredicting`) or not rendered.
handlePredict ==
    /\ IF ~modelReady
       THEN /\ toasted' = "Model Not Ready"
            /\ UNCHANGED <<isPredicting, predicts>>
       ELSE IF imageRef = NoImage \/ imagePreview = NoImage
       THEN /\ toasted' = "No Image"
            /\ UNCHANGED <<isPredicting, predicts>>
       ELSE /\ Len(predicts) < MaxPredicts
            /\ LET s == predictStart(imageRef)
               IN  /\ predicts' = Append(predicts, Predict("handlePredict", imageRef, s))
                   /\ IF s.returns
                      THEN /\ toasted' = "Prediction Error"
                           /\ isPredicting' = FALSE
                      ELSE /\ isPredicting' = TRUE
                           /\ UNCHANGED toasted
    /\ UNCHANGED <<selectedFile, imagePreview, prediction, isModelLoaded, isLoading,
                   initModel, reads, model>>
    /\ UNCHANGED <<clientVars, pageVars>>

\* another caller invokes predictCharacter
CallPredictCharacter(imageHandle) ==
    /\ Len(predicts) < MaxPredicts
    /\ predicts' = Append(predicts,
                          Predict("caller", imageHandle, predictStart(imageHandle)))
    /\ UNCHANGED <<selectedFile, imagePreview, prediction, isModelLoaded, isLoading,
                   isPredicting, initModel, reads, toasted, model>>
    /\ UNCHANGED <<clientVars, pageVars>>

\* the inference of call k ends: predictCharacter returns, and handlePredict,
\* when it made the call, goes on
PredictResolved(k, candidates) ==
    /\ predicts[k].state = "inference"
    /\ LET r == predictSuccess(candidates)
       IN  /\ predicts' = [predicts EXCEPT ![k].state = "settled", ![k].result = r]
           /\ IF predicts[k].caller = "handlePredict"
              THEN /\ prediction' = [character |-> r.character,
                                     probability |-> r.probability]
                   /\ toasted' = "Prediction Complete"
                   /\ isPredicting' = FALSE
              ELSE UNCHANGED <<prediction, toasted, isPredicting>>
    /\ UNCHANGED <<selectedFile, imagePreview, isModelLoaded, isLoading, initModel,
                   reads, model>>
    /\ UNCHANGED <<clientVars, pageVars>>

----------------------------------------------------------------------------
(* Invocations and their requests *)

\* an invocation that has not been made yet
NotInvoked ==
    [invocation |-> [fn |-> "none", args |-> <<>>], stack |-> <<>>,
     outcome |-> "none", result |-> <<>>, issued |-> <<>>]

\* the requests a step hands to fetch are those of the invocation that runs
Issue ==
    issued' = issued \o [k \in 1..(Len(fetches') - Len(fetches)) |->
                             Len(fetches) + k]

----------------------------------------------------------------------------
(* The options-free variants of the client: transliterateText and          *)
(* translateText of the earlier versions of the library.  One call of a    *)
(* variant, as a record: where it stands, the requests it handed to fetch   *)
(* with their answers, and what it returned.                                *)

NoVariant == [fn |-> "none", pc |-> "none", fetches |-> <<>>, result |-> <<>>]

\* a plausible bug: the text goes into the URL as it is
simpleUrlRaw(text, sourceScript, targetScript) ==
    <<"https://aksharamukha-plugin.appspot.com/api/public?source=",
      sourceScript, "&target=", targetScript, "&text=">> \o text

\* the URL of the variant
simpleUrl(text, sourceScript, targetScript) ==
    <<"https://aksharamukha-plugin.appspot.com/api/public?source=",
      sourceScript, "&target=", targetScript, "&text=">>
    \o encodeURIComponent(text)

\* transliterateText of the variant, up to `await fetch(...)`
simpleTransliterateText(args) ==
    IF ~Truthy(trim(args.text))
    THEN [fn |-> "transliterateText", pc |-> "returned", fetches |-> <<>>,
          result |-> [transliteratedText |-> <<>>,
                      error |-> <<"Please enter some text to transliterate">>]]
    ELSE [fn |-> "transliterateText", pc |-> "fetch",
          fetches |-> <<Request("GET",
                                simpleUrl(args.text, args.sourceScript,
                                          args.targetScript),
                                NoBody)>>,
          result |-> <<>>]

\* translateText of the variant, up to `await fetch(...)`
simpleTranslateText(args) ==
    IF ~Truthy(trim(args.text))
    THEN [fn |-> "translateText", pc |-> "returned", fetches |-> <<>>,
          result |-> [translatedText |-> <<>>,
                      error |-> <<"Please enter some text to translate">>]]
    ELSE [fn |-> "translateText", pc |-> "fetch",
          fetches |-> <<Request("POST", <<"https://libretranslate.de/translate">>,
                                [q |-> args.text, source |-> args.sourceLanguage,
                                 target |-> args.targetLanguage,
                                 format |-> "text"])>>,
          result |-> <<>>]

\* the catch blocks of the variant
simpleCatch(fn, error) ==
    IF fn = "transliterateText"
    THEN [transliteratedText |-> <<>>,
          error |-> <<"An error occurred during transliteration. Please try again.">>]
    ELSE [translatedText |-> <<>>,
          error |-> <<"An error occurred during translation. Please try again.">>]

\* `await fetch(...)` rejects
simpleFetchRejected(v, error) ==
    IF v.pc # "fetch" THEN v
    ELSE [v EXCEPT !.pc = "returned",
                   !.fetches[1].state = "done",
                   !.fetches[1].rejected = TRUE,
                   !.fetches[1].thrown = error,
                   !.result = simpleCatch(v.fn, error)]

\* `await fetch(...)` resolves: the status check
simpleFetchResolved(v, response) ==
    IF v.pc # "fetch" THEN v
    ELSE IF ~(response.status >= 200 /\ response.status <= 299)
    THEN [v EXCEPT !.pc = "returned",
                   !.fetches[1].state = "done",
                   !.fetches[1].status = response.status,
                   !.result = simpleCatch(v.fn,
                                 Error(<<"HTTP error! status: ",
                                         ToString(response.status)>>))]
    ELSE [v EXCEPT !.pc = "body",
                   !.fetches[1].state = "body",
                   !.fetches[1].status = response.status]

\* `await response.text()`, `await response.json()` resolves
simpleBodyResolved(v, body) ==
    IF v.pc # "body" THEN v
    ELSE [v EXCEPT !.pc = "returned",
                   !.fetches[1].state = "done",
                   !.fetches[1].delivered = TRUE,
                   !.fetches[1].payload = body,
                   !.result = IF v.fn = "transliterateText"
                              THEN [transliteratedText |-> body]
                              ELSE [translatedText |-> Get(body, "translatedText")]]

\* `await response.text()`, `await response.json()` rejects
simpleBodyRejected(v, error) ==
    IF v.pc # "body" THEN v
    ELSE [v EXCEPT !.pc = "returned",
                   !.fetches[1].state = "done",
                   !.fetches[1].rejected = TRUE,
                   !.fetches[1].thrown = error,
                   !.result = simpleCatch(v.fn, error)]

----------------------------------------------------------------------------
(* TransliterationForm, and the page (Index) that holds it *)

\* the form as mounted
FormMounted ==
    [inputText |-> <<>>, sourceScript |-> "Grantha", targetScript |-> "Tamil",
     sourceLanguage |-> "en", targetLanguage |-> "ta", isProcessing |-> FALSE,
     outputText |-> <<>>, activeTab |-> "transliterate", options |-> <<>>]

\* what the user may type and select in the model
FormTexts == {<<" ">>, <<"a">>}
FormScripts == {"Grantha", "Tamil"}
FormLanguages == {"en"}
FormOptionIds == {"useDandas"}

\* a step of the form that makes no request: the form and the toast change
FormStep(f, title) ==
    /\ form' = f
    /\ toasted' = title
    /\ UNCHANGED <<clientVars, sectionState, processedText, downloads,
                   extraction, variant>>

\* the controls of the form
setInputText(text) == FormStep([form EXCEPT !.inputText = text], toasted)
setSourceScript(script) == FormStep([form EXCEPT !.sourceScript = script], toasted)
setTargetScript(script) == FormStep([form EXCEPT !.targetScript = script], toasted)
setSourceLanguage(language) ==
    FormStep([form EXCEPT !.sourceLanguage = language], toasted)
setTargetLanguage(language) ==
    FormStep([form EXCEPT !.targetLanguage = language], toasted)
setActiveTab(tab) == FormStep([form EXCEPT !.activeTab = tab], toasted)

\* `{...prev, [optionId]: value}`: a key the object has keeps its place
withOption(options, optionId, value) ==
    IF \E n \in 1..Len(options) : options[n][1] = optionId
    THEN [n \in 1..Len(options) |->
            IF options[n][1] = optionId THEN <<optionId, value>> ELSE options[n]]
    ELSE Append(options, <<optionId, value>>)

handleOptionChange(optionId, value) ==
    FormStep([form EXCEPT !.options = withOption(form.options, optionId, value)],
             toasted)

handleSwapScripts ==
    FormStep([form EXCEPT !.sourceScript = form.targetScript,
                          !.targetScript = form.sourceScript], toasted)

handleSwapLanguages ==
    FormStep([form EXCEPT !.sourceLanguage = form.targetLanguage,
                          !.targetLanguage = form.sourceLanguage], toasted)

\* the arguments handleTransliterate passes
transliterateArgs(f) ==
    [text |-> f.inputText, sourceScript |-> f.sourceScript,
     targetScript |-> f.targetScript, options |-> f.options]

\* a plausible bug: handleTranslate does not pass the script on
translateArgsNoScript(f) ==
    [text |-> f.inputText, sourceLanguage |-> f.sourceLanguage,
     targetLanguage |-> f.targetLanguage]

\* the arguments handleTranslate passes
translateArgs(f) ==
    [text |-> f.inputText, sourceLanguage |-> f.sourceLanguage,
     targetLanguage |-> f.targetLanguage, sourceScript |-> f.sourceScript]

\* a handler of the form makes its call: the call is the handler's own, and
\* the handler has set isProcessing
FormCalls ==
    /\ Issue
    /\ form' = [form EXCEPT !.isProcessing = TRUE]
    /\ UNCHANGED <<parked, toasted, sectionState, processedText, downloads,
                   extraction, variant>>

\* handleTransliterate, up to `await transliterateText(...)`
handleTransliterate ==
    IF ~Truthy(trim(form.inputText))
    THEN FormStep(form, "Empty Text")
    ELSE CallTransliterateText(transliterateArgs(form)) /\ FormCalls

\* handleTranslate, up to `await translateText(...)`
handleTranslate ==
    IF ~Truthy(trim(form.inputText))
    THEN FormStep(form, "Empty Text")
    ELSE CallTranslateText(translateArgs(form)) /\ FormCalls

handleProcessText ==
    IF form.activeTab = "transliterate" THEN handleTransliterate ELSE handleTranslate

\* a plausible bug: the button stays enabled
processNeverDisabled == FALSE

\* `disabled={isProcessing}` of the button that runs handleProcessText
processDisabled == form.isProcessing

\* the user clicks the button
ClickProcess == ~processDisabled /\ handleProcessText

\* a plausible bug: the page drops the text
handleProcessingCompleteDropped(text) == <<>>

\* handleProcessingComplete of the page, the onTransliterationComplete of the
\* form: what the page keeps as processedText
handleProcessingComplete(text) == text

\* a plausible bug: no result counts as an error
hasErrorNever(r) == FALSE

\* `if (result.error)`
hasError(r) == Truthy(Get(r, "error"))

\* a plausible bug: isProcessing is not reset
afterHandlerForgotten(f) == f

\* `finally { setIsProcessing(false); }`
afterHandler(f) == [f EXCEPT !.isProcessing = FALSE]

\* the text of a result of the call a handler made
resultText(fn, r) ==
    IF fn = "transliterateText" THEN r.transliteratedText ELSE r.translatedText

\* The call of a handler has settled, and the handler goes on after its
\* await.  The call is over: its frames are gone, and the transport's record
\* of its requests, which nothing reads again, is dropped when no other call
\* has requests in it.
FormResume ==
    /\ invocation.fn \in {"transliterateText", "translateText"}
    /\ outcome \in {"returned", "rejected"}
    /\ IF outcome = "rejected"
       THEN /\ toasted' = "Error"
            /\ form' = afterHandler(form)
            /\ UNCHANGED processedText
       ELSE IF hasError(result)
       THEN /\ toasted' = IF invocation.fn = "transliterateText"
                          THEN "Transliteration Error" ELSE "Translation Error"
            /\ form' = afterHandler(form)
            /\ UNCHANGED processedText
       ELSE /\ form' = afterHandler(
                           [form EXCEPT !.outputText = resultText(invocation.fn, result)])
            /\ processedText' =
                   handleProcessingComplete(resultText(invocation.fn, result))
            /\ toasted' = IF invocation.fn = "transliterateText"
                          THEN "Transliteration Complete" ELSE "Translation Complete"
    /\ invocation' = NotInvoked.invocation
    /\ stack' = NotInvoked.stack
    /\ outcome' = NotInvoked.outcome
    /\ result' = NotInvoked.result
    /\ issued' = NotInvoked.issued
    /\ fetches' = IF parked.issued = <<>> THEN <<>> ELSE fetches
    /\ UNCHANGED <<parked, sectionState, downloads, extraction, variant>>

\* the files downloadTextAsFile may make in one behaviour
MaxDownloads == 2

\* a plausible bug: downloadTextAsFile does not look at the text
hasTextAlways(text) == TRUE

\* `if (!text) { ...; return; }`
hasText(text) == Truthy(text)

\* downloadTextAsFile: a blob of the text behind a link named filename, which
\* is clicked; nothing when there is no text
downloadTextAsFile(text, filename) ==
    IF ~hasText(text)
    THEN downloads
    ELSE Append(downloads,
                [blob |-> text, type |-> "text/plain", download |-> filename,
                 clicked |-> TRUE])

\* handleDownload.  The handler is taken as it stands: it may be invoked in
\* every state, also where its button is disabled (`!outputText`).
handleDownload ==
    /\ Len(downloads) < MaxDownloads
    /\ IF ~Truthy(form.outputText)
       THEN /\ toasted' = "No Output"
            /\ UNCHANGED downloads
       ELSE /\ downloads' = downloadTextAsFile(form.outputText, "output.txt")
            /\ toasted' = "Download Started"
    /\ UNCHANGED <<clientVars, sectionState, form, processedText, extraction, variant>>

\* another caller invokes downloadTextAsFile
CallDownloadTextAsFile(text) ==
    /\ Len(downloads) < MaxDownloads
    /\ downloads' = downloadTextAsFile(text, "output.txt")
    /\ UNCHANGED <<clientVars, sectionVars, form, processedText, extraction, variant>>

----------------------------------------------------------------------------
(* ImageUploadSection: text extraction *)

\* the section as mounted
ExtractionMounted ==
    [file |-> NoFile, imagePreview |-> NoImage, extractedText |-> <<>>,
     isLoading |-> FALSE, isProcessing |-> FALSE, reading |-> <<>>]

\* the FileReaders at work at one time in the model
MaxReads == 2

\* a sequence without its k-th element
Without(s, k) == SubSeq(s, 1, k - 1) \o SubSeq(s, k + 1, Len(s))

\* a step of the section that makes no request
ExtractionStep(e, title) ==
    /\ extraction' = e
    /\ toasted' = title
    /\ UNCHANGED <<clientVars, sectionState, form, processedText, downloads, variant>>

\* handleFileChange of the section: the file input is there when the section
\* is not loading, also while a text is extracted.  `reading` holds the file
\* of each FileReader at work.
handleFileChangeExtraction(picked) ==
    /\ ~extraction.isLoading
    /\ Len(extraction.reading) < MaxReads
    /\ IF picked = NoFile
       THEN ExtractionStep(extraction, toasted)
       ELSE IF ~isImage(picked)
       THEN ExtractionStep(extraction, "Invalid File")
       ELSE ExtractionStep([extraction EXCEPT !.file = picked,
                                              !.extractedText = <<>>,
                                              !.reading = Append(@, picked)],
                           toasted)

\* `reader.onload` of one of the readers: they finish in any order
readerOnloadExtraction(k) ==
    /\ k \in 1..Len(extraction.reading)
    /\ ExtractionStep([extraction EXCEPT !.imagePreview = dataURL(extraction.reading[k]),
                                         !.reading = Without(@, k)],
                      toasted)

\* handleExtractText, up to `await extractTextFromImage(file)`
handleExtractText ==
    IF extraction.file = NoFile
    THEN ExtractionStep(extraction, "No Image")
    ELSE /\ CallExtractTextFromImage(extraction.file)
         /\ Issue
         /\ extraction' = [extraction EXCEPT !.isProcessing = TRUE]
         /\ UNCHANGED <<parked, toasted, sectionState, form, processedText,
                        downloads, variant>>

\* the button of handleExtractText: rendered with the preview, and
\* `disabled={isProcessing}`
ClickExtract ==
    /\ extraction.imagePreview # NoImage
    /\ ~extraction.isLoading
    /\ ~extraction.isProcessing
    /\ handleExtractText

\* a plausible bug: the handler does not reset isProcessing
processingForgotten(e) == e

\* `setIsProcessing(false)`, of the error branch and of finally
processingDone(e) == [e EXCEPT !.isProcessing = FALSE]

\* extractTextFromImage has settled, and handleExtractText goes on after its
\* await
ExtractionResume ==
    /\ invocation.fn = "extractTextFromImage"
    /\ outcome \in {"returned", "rejected"}
    /\ IF outcome = "rejected"
       THEN /\ toasted' = "Error"
            /\ extraction' = processingDone(extraction)
       ELSE IF Truthy(Get(result, "error"))
       THEN /\ toasted' = "Extraction Error"
            /\ extraction' = processingDone(extraction)
       ELSE /\ extraction' = processingDone([extraction EXCEPT !.extractedText = result.text])
            /\ toasted' = "Text Extracted"
    /\ invocation' = NotInvoked.invocation
    /\ stack' = NotInvoked.stack
    /\ outcome' = NotInvoked.outcome
    /\ result' = NotInvoked.result
    /\ issued' = NotInvoked.issued
    /\ fetches' = IF parked.issued = <<>> THEN <<>> ELSE fetches
    /\ UNCHANGED <<parked, sectionState, form, processedText, downloads, variant>>

----------------------------------------------------------------------------
(* The specifications *)

TransliterateArgs ==
    [text : Texts, sourceScript : Scripts, targetScript : Scripts,
     options : FormOptions]

TranslateArgs ==
    [text : Texts, sourceLanguage : Languages, targetLanguage : TargetLanguages,
     sourceScript : Scripts]
    \cup [text : Texts, sourceLanguage : Languages, targetLanguage : TargetLanguages]

Init ==
    /\ invocation = NotInvoked.invocation
    /\ stack = NotInvoked.stack
    /\ fetches = <<>>
    /\ outcome = NotInvoked.outcome
    /\ result = NotInvoked.result
    /\ issued = NotInvoked.issued
    /\ parked = NotInvoked
    /\ Mounted
    /\ form = FormMounted
    /\ processedText = <<>>
    /\ downloads = <<>>
    /\ extraction = ExtractionMounted
    /\ variant = NoVariant

\* Every step below is a step of the invocation that runs: the requests it
\* hands to fetch are its own, and the other invocation stays as it is.
Own ==
    /\ Issue
    /\ UNCHANGED parked
    /\ UNCHANGED sectionVars
    /\ UNCHANGED pageVars

\* a caller invokes one of the three functions
InvokeTransliterateText ==
    /\ outcome = "none"
    /\ \E args \in TransliterateArgs : CallTransliterateText(args)

InvokeTranslateText ==
    /\ outcome = "none"
    /\ \E args \in TranslateArgs : CallTranslateText(args)

InvokeExtractTextFromImage ==
    /\ outcome = "none"
    /\ \E file \in Files \cup {NoFile} : CallExtractTextFromImage(file)

Next ==
    \/ InvokeTransliterateText /\ Own
    \/ InvokeTranslateText /\ Own
    \/ InvokeExtractTextFromImage /\ Own
    \/ (\E i \in DOMAIN stack, error \in Thrown : TransliterateFetchRejected(i, error)) /\ Own
    \/ (\E i \in DOMAIN stack, response \in Responses : TransliterateFetchResolved(i, response)) /\ Own
    \/ (\E i \in DOMAIN stack, body \in Bodies : TransliterateTextResolved(i, body)) /\ Own
    \/ (\E i \in DOMAIN stack, error \in Thrown : TransliterateTextRejected(i, error)) /\ Own
    \/ (\E i \in DOMAIN stack : TranslateResume(i)) /\ Own
    \/ (\E i \in DOMAIN stack, error \in Thrown : TranslateFetchRejected(i, error)) /\ Own
    \/ (\E i \in DOMAIN stack, response \in Responses : TranslateFetchResolved(i, response)) /\ Own
    \/ (\E i \in DOMAIN stack, json \in TranslateJson : TranslateJsonResolved(i, json)) /\ Own
    \/ (\E i \in DOMAIN stack, error \in Thrown : TranslateJsonRejected(i, error)) /\ Own
    \/ (\E i \in DOMAIN stack, error \in Thrown : ExtractFetchRejected(i, error)) /\ Own
    \/ (\E i \in DOMAIN stack, response \in Responses : ExtractFetchResolved(i, response)) /\ Own
    \/ (\E i \in DOMAIN stack, json \in OcrJson : ExtractJsonResolved(i, json)) /\ Own
    \/ (\E i \in DOMAIN stack, error \in Thrown : ExtractJsonRejected(i, error)) /\ Own

Spec == Init /\ [][Next]_vars

\* The option encoder on every options object: transliterateText is invoked
\* with each of them.  The texts of these invocations:
EncTexts == {<<"a">>, <<"&", " ">>}

\* every subset of the flags set to true, the other flags absent or all of
\* them set to false, in each key order
NextEnc ==
    /\ outcome = "none"
    /\ \E text \in EncTexts, order \in KeyOrders,
          on \in SUBSET Flags, off \in {{}, Flags} :
            CallTransliterateText(
                [text |-> text, sourceScript |-> "Grantha", targetScript |-> "Tamil",
                 options |-> Entries(order, on \cup off, on)])
    /\ Own

SpecEnc == Init /\ [][NextEnc]_vars

\* Two invocations in flight at the same time.  JavaScript runs one of them
\* until it suspends at an await; then the event loop may run the other one.
\* What an invocation keeps while the other one runs: its frames with their
\* locals, and what it has returned.  The transport serves both.
Running ==
    [invocation |-> invocation, stack |-> stack, outcome |-> outcome,
     result |-> result, issued |-> issued]

\* the event loop turns to the other invocation
Switch ==
    /\ Running # parked
    /\ parked' = Running
    /\ invocation' = parked.invocation
    /\ stack' = parked.stack
    /\ outcome' = parked.outcome
    /\ result' = parked.result
    /\ issued' = parked.issued
    /\ UNCHANGED <<fetches, sectionVars, pageVars>>

\* the calls made side by side, and the answers of the transport to them
ConcTransliterateArgs ==
    {[text |-> t, sourceScript |-> "Grantha", targetScript |-> "Tamil"] :
        t \in {<<"a">>, <<"&">>}}

ConcTranslateArgs ==
    {[text |-> <<"a">>, sourceLanguage |-> "hi", targetLanguage |-> "en",
      sourceScript |-> "Grantha"],
     [text |-> <<"&">>, sourceLanguage |-> "en", targetLanguage |-> "ta"]}

ConcFiles == {"leaf.png"}
ConcThrown ==
    {[isError |-> TRUE, message |-> <<"Failed to fetch">>],
     [isError |-> FALSE, message |-> <<"timeout">>]}
ConcResponses == {[status |-> st, statusText |-> StatusText(st)] : st \in {200, 500}}
ConcBodies == {<<>>, <<"k">>}
ConcOcrJson == {[grantha_text |-> <<"k">>], [detail |-> <<"k">>]}
ConcTranslateJson == {[translatedText |-> <<"k">>], [error |-> <<"k">>]}

NextConc ==
    \/ Switch
    \/ (\E args \in ConcTransliterateArgs : CallTransliterateText(args)) /\ Own
    \/ (\E args \in ConcTranslateArgs : CallTranslateText(args)) /\ Own
    \/ (\E file \in ConcFiles : CallExtractTextFromImage(file)) /\ Own
    \/ (\E i \in DOMAIN stack, error \in ConcThrown : TransliterateFetchRejected(i, error)) /\ Own
    \/ (\E i \in DOMAIN stack, response \in ConcResponses : TransliterateFetchResolved(i, response)) /\ Own
    \/ (\E i \in DOMAIN stack, body \in ConcBodies : TransliterateTextResolved(i, body)) /\ Own
    \/ (\E i \in DOMAIN stack, error \in ConcThrown : TransliterateTextRejected(i, error)) /\ Own
    \/ (\E i \in DOMAIN stack : TranslateResume(i)) /\ Own
    \/ (\E i \in DOMAIN stack, error \in ConcThrown : TranslateFetchRejected(i, error)) /\ Own
    \/ (\E i \in DOMAIN stack, response \in ConcResponses : TranslateFetchResolved(i, response)) /\ Own
    \/ (\E i \in DOMAIN stack, json \in ConcTranslateJson : TranslateJsonResolved(i, json)) /\ Own
    \/ (\E i \in DOMAIN stack, error \in ConcThrown : TranslateJsonRejected(i, error)) /\ Own
    \/ (\E i \in DOMAIN stack, error \in ConcThrown : ExtractFetchRejected(i, error)) /\ Own
    \/ (\E i \in DOMAIN stack, response \in ConcResponses : ExtractFetchResolved(i, response)) /\ Own
    \/ (\E i \in DOMAIN stack, json \in ConcOcrJson : ExtractJsonResolved(i, json)) /\ Own
    \/ (\E i \in DOMAIN stack, error \in ConcThrown : ExtractJsonRejected(i, error)) /\ Own

SpecConc == Init /\ [][NextConc]_vars

\* the character recognition section, and callers of predictCharacter
NextPredict ==
    \/ InitModel
    \/ \E loaded \in BOOLEAN : InitModelResume(loaded)
    \/ \E picked \in SectionFiles \cup {NoFile} : handleFileChange(picked)
    \/ \E picked \in Files : readerOnload(picked)
    \/ handlePredict
    \/ \E imageHandle \in {dataURL(f) : f \in Files} : CallPredictCharacter(imageHandle)
    \/ \E k \in DOMAIN predicts, candidates \in CandidateLists :
           PredictResolved(k, candidates)

SpecPredict == Init /\ [][NextPredict]_vars

\* A variant and the full function, called with the same arguments and given
\* the same answers.  The full transliterateText gets no options, or the
\* empty options object; the full translateText gets no sourceScript, or one
\* that is not "Grantha".
SimpleTransliterateArgs == [text : Texts, sourceScript : Scripts, targetScript : Scripts]
SimpleTranslateArgs ==
    [text : Texts, sourceLanguage : Languages, targetLanguage : TargetLanguages]

\* the full function steps, and nothing but it and the variant
OwnBeside ==
    /\ Issue
    /\ UNCHANGED <<parked, form, processedText, downloads, extraction>>
    /\ UNCHANGED sectionVars

NextVariant ==
    \/ /\ outcome = "none"
       /\ \E args \in SimpleTransliterateArgs :
            /\ \/ CallTransliterateText(args)
               \/ CallTransliterateText(
                      [text |-> args.text, sourceScript |-> args.sourceScript,
                       targetScript |-> args.targetScript, options |-> <<>>])
            /\ variant' = simpleTransliterateText(args)
       /\ OwnBeside
    \/ /\ outcome = "none"
       /\ \E args \in SimpleTranslateArgs :
            /\ \/ CallTranslateText(args)
               \/ \E script \in Scripts \ {"Grantha"} :
                      CallTranslateText(
                          [text |-> args.text, sourceLanguage |-> args.sourceLanguage,
                           targetLanguage |-> args.targetLanguage,
                           sourceScript |-> script])
            /\ variant' = simpleTranslateText(args)
       /\ OwnBeside
    \/ /\ \E i \in DOMAIN stack, error \in Thrown :
            /\ TransliterateFetchRejected(i, error) \/ TranslateFetchRejected(i, error)
            /\ variant' = simpleFetchRejected(variant, error)
       /\ OwnBeside
    \/ /\ \E i \in DOMAIN stack, response \in Responses :
            /\ TransliterateFetchResolved(i, response) \/ TranslateFetchResolved(i, response)
            /\ variant' = simpleFetchResolved(variant, response)
       /\ OwnBeside
    \/ /\ \E i \in DOMAIN stack, body \in Bodies :
            /\ TransliterateTextResolved(i, body)
            /\ variant' = simpleBodyResolved(variant, body)
       /\ OwnBeside
    \/ /\ \E i \in DOMAIN stack, json \in TranslateJson :
            /\ TranslateJsonResolved(i, json)
            /\ variant' = simpleBodyResolved(variant, json)
       /\ OwnBeside
    \/ /\ \E i \in DOMAIN stack, error \in Thrown :
            /\ TransliterateTextRejected(i, error) \/ TranslateJsonRejected(i, error)
            /\ variant' = simpleBodyRejected(variant, error)
       /\ OwnBeside

SpecVariant == Init /\ [][NextVariant]_vars

\* The form on the page.  The transport answers the requests of the calls the
\* handlers of the form make; what it throws at them:
FormThrown == {[isError |-> TRUE, message |-> <<"Failed to fetch">>]}

FormAnswers ==
    \/ (\E i \in DOMAIN stack, error \in FormThrown : TransliterateFetchRejected(i, error)) /\ Own
    \/ (\E i \in DOMAIN stack, response \in ConcResponses : TransliterateFetchResolved(i, response)) /\ Own
    \/ (\E i \in DOMAIN stack, body \in ConcBodies : TransliterateTextResolved(i, body)) /\ Own
    \/ (\E i \in DOMAIN stack, error \in FormThrown : TransliterateTextRejected(i, error)) /\ Own
    \/ (\E i \in DOMAIN stack : TranslateResume(i)) /\ Own
    \/ (\E i \in DOMAIN stack, error \in FormThrown : TranslateFetchRejected(i, error)) /\ Own
    \/ (\E i \in DOMAIN stack, response \in ConcResponses : TranslateFetchResolved(i, response)) /\ Own
    \/ (\E i \in DOMAIN stack, json \in ConcTranslateJson : TranslateJsonResolved(i, json)) /\ Own
    \/ (\E i \in DOMAIN stack, error \in FormThrown : TranslateJsonRejected(i, error)) /\ Own

\* what the user does with the form
FormEvents ==
    \/ \E text \in FormTexts : setInputText(text)
    \/ \E script \in FormScripts : setSourceScript(script)
    \/ \E script \in FormScripts : setTargetScript(script)
    \/ \E language \in FormLanguages : setSourceLanguage(language)
    \/ \E language \in FormLanguages : setTargetLanguage(language)
    \/ \E tab \in {"transliterate", "translate"} : setActiveTab(tab)
    \/ \E optionId \in FormOptionIds : handleOptionChange(optionId, TRUE)
    \/ handleSwapScripts
    \/ handleSwapLanguages
    \/ ClickProcess

NextForm ==
    \/ FormEvents
    \/ FormResume
    \/ FormAnswers

SpecForm == Init /\ [][NextForm]_vars

\* The user clicks while a call is in flight: the event loop turns from the
\* handler that awaits to the next event.
NextClicks ==
    \/ \E text \in FormTexts : setInputText(text)
    \/ \E tab \in {"transliterate", "translate"} : setActiveTab(tab)
    \/ ClickProcess
    \/ FormResume
    \/ FormAnswers
    \/ Switch

SpecClicks == Init /\ [][NextClicks]_vars

\* Downloads: the user types, picks a tab, runs the text and downloads the
\* output; another caller hands downloadTextAsFile a text of its own.
DownloadTexts == {<<>>, <<" ">>, <<"a">>}

NextDownload ==
    \/ \E text \in FormTexts : setInputText(text)
    \/ \E tab \in {"transliterate", "translate"} : setActiveTab(tab)
    \/ ClickProcess
    \/ FormResume
    \/ FormAnswers
    \/ handleDownload
    \/ \E text \in DownloadTexts : CallDownloadTextAsFile(text)

SpecDownload == Init /\ [][NextDownload]_vars

\* The text extraction section.  The transport answers the request of the
\* call handleExtractText makes.
ExtractionAnswers ==
    \/ (\E i \in DOMAIN stack, error \in ConcThrown : ExtractFetchRejected(i, error)) /\ Own
    \/ (\E i \in DOMAIN stack, response \in ConcResponses : ExtractFetchResolved(i, response)) /\ Own
    \/ (\E i \in DOMAIN stack, json \in ConcOcrJson : ExtractJsonResolved(i, json)) /\ Own
    \/ (\E i \in DOMAIN stack, error \in ConcThrown : ExtractJsonRejected(i, error)) /\ Own

NextExtraction ==
    \/ \E picked \in SectionFiles \cup {NoFile} : handleFileChangeExtraction(picked)
    \/ \E k \in 1..MaxReads : readerOnloadExtraction(k)
    \/ ClickExtract
    \/ ExtractionResume
    \/ ExtractionAnswers

SpecExtraction == Init /\ [][NextExtraction]_vars

\* The handlers that set a processing flag, with a transport that answers.
\* The user types, picks a tab and a file and clicks; every request fetch was
\* handed is settled in the end, and so is the reading of a body; the event
\* loop runs the continuation of a handler whose call has settled.
NextLive ==
    \/ setInputText(<<"a">>)
    \/ \E tab \in {"transliterate", "translate"} : setActiveTab(tab)
    \/ ClickProcess
    \/ FormResume
    \/ FormAnswers
    \/ \E picked \in ConcFiles : handleFileChangeExtraction(picked)
    \/ \E k \in 1..MaxReads : readerOnloadExtraction(k)
    \/ ClickExtract
    \/ ExtractionResume
    \/ ExtractionAnswers

SpecLive ==
    /\ Init
    /\ [][NextLive]_vars
    /\ WF_vars(FormAnswers)
    /\ WF_vars(FormResume)
    /\ WF_vars(ExtractionAnswers)
    /\ WF_vars(ExtractionResume)

----------------------------------------------------------------------------
(* What the claims speak of *)

\* a text is empty or holds white space only
Blank(text) == \A k \in 1..Len(text) : text[k] \in WhiteSpace

\* the invocation a behaviour follows
Invoked(fn) == invocation.fn = fn
Returned(fn) == invocation.fn = fn /\ outcome = "returned"

\* the result is a failure, with this message
Failure(r, message) == "error" \in DOMAIN r /\ r.error = message

\* a message holds the status code
Embeds(message, status) ==
    \E k \in 1..Len(message) : message[k] = ToString(status)

\* the requests of one method the transport has recorded
Count(method) == Cardinality({k \in 1..Len(fetches) : fetches[k].method = method})

NonOk(status) == status # 0 /\ ~(status \in 200..299)

----------------------------------------------------------------------------
(* C1 *)

\* the flags in the order the claim gives
C1_Order ==
    <<"disableUu", "subscriptNumerals", "markFirstVarga", "removeApostrophe",
      "removeDiacriticNumerals", "oldOrthography", "granthaVisarga",
      "disableIlm", "contextualNna", "onlyWordFinalNna", "nativeNumerals",
      "useDandas", "preserveSource">>

C1_Token(flag, value) == "&" \o flag \o "=" \o value

\* what follows the text parameter in the URL
C1_Suffix(url, text) ==
    SubSeq(url, 6 + Len(encodeURIComponent(text)), Len(url))

C1_IsSet(options, flag) ==
    \E k \in 1..Len(options) : options[k][1] = flag /\ options[k][2]

C1_Times(suffix, token) == Cardinality({k \in 1..Len(suffix) : suffix[k] = token})

\* C1: the option suffix of the request URL of transliterateText holds one
\* `&<flag>=true` token for each flag that is true, none for a flag that is
\* false or absent, never a `=false` token, nothing when no flag is set, and
\* the tokens stand in the fixed order of the flags, whatever the order in
\* which the flags were set.
C1_OptionSuffix ==
    (Invoked("transliterateText") /\ Len(fetches) = 1) =>
        LET options == invocation.args.options
            suffix  == C1_Suffix(fetches[1].url, invocation.args.text)
        IN  /\ \A p \in 1..Len(C1_Order) :
                 /\ C1_Times(suffix, C1_Token(C1_Order[p], "true"))
                      = IF C1_IsSet(options, C1_Order[p]) THEN 1 ELSE 0
                 /\ C1_Times(suffix, C1_Token(C1_Order[p], "false")) = 0
            /\ suffix = SelectSeq([p \in 1..Len(C1_Order) |->
                                      C1_Token(C1_Order[p], "true")],
                                  LAMBDA token : C1_Times(suffix, token) > 0)
            /\ (\A p \in 1..Len(C1_Order) : ~C1_IsSet(options, C1_Order[p]))
                 => suffix = <<>>

\* a request for options set in another order than the fixed one, with keys
\* that are false
C1_Witness ==
    /\ Invoked("transliterateText") /\ Len(fetches) = 1
    /\ LET options == invocation.args.options
       IN  /\ Len(options) = 13
           /\ options[1] = <<"preserveSource", TRUE>>
           /\ options[2] = <<"useDandas", FALSE>>
           /\ options[13] = <<"disableUu", TRUE>>
           /\ C1_Suffix(fetches[1].url, invocation.args.text)[1] = "&disableUu=true"

----------------------------------------------------------------------------
(* C2 *)

C2_Target(sourceLanguage) ==
    IF sourceLanguage \in {"hi", "sa"} THEN "Devanagari" ELSE "Tamil"

C2_Case ==
    /\ Invoked("translateText")
    /\ "sourceScript" \in DOMAIN invocation.args
    /\ invocation.args.sourceScript = "Grantha"
    /\ ~Blank(invocation.args.text)

\* C2: translateText with sourceScript "Grantha" and text that is not blank
\* calls transliterateText with source script Grantha, no options, and the
\* target script Devanagari for the source languages hi and sa, Tamil for
\* every other one: the first request is that GET, and while it is pending
\* the frame of that call is on the stack.
C2_SubCall ==
    C2_Case =>
        LET args   == invocation.args
            target == C2_Target(args.sourceLanguage)
        IN  /\ Len(fetches) >= 1
            /\ fetches[1].method = "GET"
            /\ fetches[1].url =
                 <<"https://aksharamukha-plugin.appspot.com/api/public?source=",
                   "Grantha", "&target=", target, "&text=">>
                 \o encodeURIComponent(args.text)
            /\ fetches[1].state # "done" =>
                 /\ Len(stack) = 2
                 /\ stack[2].fn = "transliterateText"
                 /\ stack[2].args = [text |-> args.text, sourceScript |-> "Grantha",
                                     targetScript |-> target]

C2_Witness ==
    /\ C2_Case
    /\ invocation.args.sourceLanguage = "sa"
    /\ Len(stack) = 2
    /\ stack[2].args.targetScript = "Devanagari"
    /\ fetches[1].state = "inflight"

----------------------------------------------------------------------------
(* C3 *)

\* the sub-call of translateText has returned a failure, which translateText
\* has not looked at yet
C3_SubCallFailed ==
    /\ Len(stack) = 1
    /\ stack[1].fn = "translateText"
    /\ stack[1].pc = "resume"
    /\ "error" \in DOMAIN stack[1].sub

\* C3: when the transliteration sub-call of translateText has failed,
\* translateText returns a failure with the message of the sub-call, and no
\* POST is issued.
C3_FailurePropagates ==
    [][C3_SubCallFailed =>
          /\ outcome' = "returned"
          /\ Failure(result', stack[1].sub.error)
          /\ fetches' = fetches
          /\ Count("POST")' = 0]_vars

\* translateText has returned the failure of its sub-call
C3_Witness ==
    /\ Returned("translateText")
    /\ Len(fetches) = 1 /\ fetches[1].method = "GET" /\ fetches[1].status = 500
    /\ Failure(result, <<"An error occurred during transliteration. Please try again.">>)

----------------------------------------------------------------------------
(* C4 *)

\* C4: on the Grantha path of translateText the POST is issued only once the
\* GET is done, and at most one request is pending at any time.
C4_Serialized ==
    Invoked("translateText") =>
        /\ \A k \in 1..Len(fetches) :
             fetches[k].method = "POST" =>
                 \A j \in 1..(k - 1) : fetches[j].state = "done"
        /\ Cardinality({k \in 1..Len(fetches) : fetches[k].state # "done"}) <= 1

\* the POST is pending after the GET
C4_Witness ==
    /\ Invoked("translateText")
    /\ Len(fetches) = 2
    /\ fetches[1].method = "GET" /\ fetches[1].state = "done"
    /\ fetches[2].method = "POST" /\ fetches[2].state = "inflight"

----------------------------------------------------------------------------
(* C5, C6 *)

\* C5: transliterateText on a blank text returns the failure "Please enter
\* some text to transliterate" and hands nothing to fetch, whatever the
\* scripts and the options.
C5_BlankTransliterate ==
    (Invoked("transliterateText") /\ Blank(invocation.args.text)) =>
        /\ outcome = "returned"
        /\ Failure(result, <<"Please enter some text to transliterate">>)
        /\ fetches = <<>>

C5_Witness ==
    /\ Returned("transliterateText")
    /\ invocation.args.text = <<" ", " ">>
    /\ invocation.args.options # <<>>
    /\ Failure(result, <<"Please enter some text to transliterate">>)

\* C6: translateText on a blank text returns the failure "Please enter some
\* text to translate" and hands nothing to fetch, neither GET nor POST, also
\* when sourceScript is "Grantha".
C6_BlankTranslate ==
    (Invoked("translateText") /\ Blank(invocation.args.text)) =>
        /\ outcome = "returned"
        /\ Failure(result, <<"Please enter some text to translate">>)
        /\ fetches = <<>>

C6_Witness ==
    /\ Returned("translateText")
    /\ invocation.args.text = <<" ">>
    /\ "sourceScript" \in DOMAIN invocation.args
    /\ invocation.args.sourceScript = "Grantha"
    /\ Failure(result, <<"Please enter some text to translate">>)

----------------------------------------------------------------------------
(* C7, C8, C9 *)

\* C7: when the transliteration service answers with a status that is not
\* 2xx, transliterateText returns a failure whose message holds the status.
C7_StatusInMessage ==
    (Returned("transliterateText") /\ Len(fetches) = 1
        /\ NonOk(fetches[1].status)) =>
        /\ "error" \in DOMAIN result
        /\ Embeds(result.error, fetches[1].status)

\* C8: when the translation service answers with a status that is not 2xx,
\* translateText returns a failure whose message holds the status.
C8_StatusInMessage ==
    (Returned("translateText") /\ Len(fetches) >= 1
        /\ fetches[Len(fetches)].method = "POST"
        /\ NonOk(fetches[Len(fetches)].status)) =>
        /\ "error" \in DOMAIN result
        /\ Embeds(result.error, fetches[Len(fetches)].status)

\* C9: when the OCR service answers with a status that is not 2xx,
\* extractTextFromImage returns a failure whose message holds the status.
C9_StatusInMessage ==
    (Returned("extractTextFromImage") /\ Len(fetches) = 1
        /\ NonOk(fetches[1].status)) =>
        /\ "error" \in DOMAIN result
        /\ Truthy(result.error)
        /\ Embeds(result.error, fetches[1].status)

C9_Witness ==
    /\ Returned("extractTextFromImage")
    /\ Len(fetches) = 1 /\ fetches[1].status = 404
    /\ result.error = <<"API error: ", "404", " ", "Not Found">>

----------------------------------------------------------------------------
(* C10 *)

C10_Message == <<"Failed to extract text. Please try another image.">>

\* the OCR request was rejected, or the reading of its answer was
C10_TransportFailed ==
    /\ Returned("extractTextFromImage")
    /\ Len(fetches) = 1 /\ fetches[1].rejected

\* the OCR service answered with a document without the text field
C10_FieldMissing ==
    /\ Returned("extractTextFromImage")
    /\ Len(fetches) = 1 /\ fetches[1].delivered
    /\ "grantha_text" \notin DOMAIN fetches[1].payload

----------------------------------------------------------------------------
(* C11 *)

\* the OCR service answered 2xx with a document that was parsed
C11_Case ==
    /\ Returned("extractTextFromImage")
    /\ Len(fetches) = 1
    /\ fetches[1].status \in 200..299
    /\ fetches[1].delivered

\* C11: when the OCR service answers 2xx with JSON that parses,
\* extractTextFromImage returns a success whose text is the text field of the
\* answer, and the empty string when the answer has no such field.
C11_TextField ==
    C11_Case =>
        /\ "error" \notin DOMAIN result
        /\ result.text = IF "grantha_text" \in DOMAIN fetches[1].payload
                         THEN fetches[1].payload.grantha_text
                         ELSE <<>>

\* the answer has no text field
C11_Witness ==
    /\ C11_Case
    /\ fetches[1].payload = [detail |-> <<"k">>]
    /\ result = [text |-> <<>>]

----------------------------------------------------------------------------
(* C12, C13 *)

C12_Message == <<"An error occurred during transliteration. Please try again.">>

\* C12: when the request of transliterateText fails in the transport (fetch
\* rejects, or the reading of the body does), transliterateText returns the
\* failure "An error occurred during transliteration. Please try again.".
C12_TransportFailure ==
    (Returned("transliterateText") /\ Len(fetches) = 1 /\ fetches[1].rejected)
        => Failure(result, C12_Message)

C12_Witness ==
    /\ Returned("transliterateText")
    /\ Len(fetches) = 1 /\ fetches[1].rejected /\ fetches[1].status = 0
    /\ fetches[1].thrown = [isError |-> TRUE, message |-> <<"Failed to fetch">>]
    /\ Failure(result, C12_Message)

C13_Message == <<"An error occurred during translation. Please try again.">>

\* the POST of translateText failed in the transport
C13_Case ==
    /\ Returned("translateText")
    /\ Len(fetches) >= 1
    /\ fetches[Len(fetches)].method = "POST"
    /\ fetches[Len(fetches)].rejected

\* C13: when the POST of translateText fails in the transport, translateText
\* returns the failure "An error occurred during translation. Please try
\* again.".
C13_TransportFailure == C13_Case => Failure(result, C13_Message)

C13_Witness ==
    /\ C13_Case
    /\ Len(fetches) = 2
    /\ fetches[2].status = 0
    /\ fetches[2].thrown = [isError |-> FALSE, message |-> <<"timeout">>]
    /\ Failure(result, C13_Message)

----------------------------------------------------------------------------
(* C16 *)

\* the transliteration service answered 2xx and the body was read
C16_Case ==
    /\ Returned("transliterateText")
    /\ Len(fetches) = 1
    /\ fetches[1].status \in 200..299
    /\ fetches[1].delivered

\* C16: when the transliteration service answers 2xx, transliterateText
\* returns a success whose text is the body as it came, untrimmed, also when
\* the body is empty.
C16_Verbatim ==
    C16_Case =>
        /\ "error" \notin DOMAIN result
        /\ result.transliteratedText = fetches[1].payload

\* a body with white space around it
C16_Witness ==
    /\ C16_Case
    /\ fetches[1].payload = <<" ", "k", " ">>
    /\ result.transliteratedText = <<" ", "k", " ">>

\* the empty body
C16_WitnessEmpty ==
    /\ C16_Case
    /\ fetches[1].payload = <<>>
    /\ result = [transliteratedText |-> <<>>]

----------------------------------------------------------------------------
(* C14 *)

\* the field that carries the value of a result of fn
C14_ValueField(fn) ==
    CASE fn = "transliterateText" -> "transliteratedText"
      [] fn = "translateText" -> "translatedText"
      [] fn = "extractTextFromImage" -> "text"

\* the innermost frame waits for the transport, or is about to go on
C14_Waiting ==
    /\ stack # <<>>
    /\ LET top == stack[Len(stack)]
       IN  \/ top.pc = "resume"
           \/ /\ top.pc \in {"fetch", "body"}
              /\ top.req \in 1..Len(fetches)
              /\ fetches[top.req].state # "done"

\* C14: no exception escapes transliterateText, translateText or
\* extractTextFromImage.  Whatever the input and whatever the service does
\* (transport rejection, non-2xx status, unparseable body), the promise of an
\* invocation never rejects: an invocation that has not finished is waiting
\* for the transport, and one that has finished has returned a result value.
C14_NoEscape ==
    /\ outcome # "rejected"
    /\ outcome = "pending" => C14_Waiting
    /\ outcome = "returned" =>
           /\ stack = <<>>
           /\ C14_ValueField(invocation.fn) \in DOMAIN result

\* the body of a 2xx answer cannot be parsed, and extractTextFromImage returns
C14_Witness ==
    /\ Returned("extractTextFromImage")
    /\ Len(fetches) = 1
    /\ fetches[1].status = 200 /\ fetches[1].rejected
    /\ "error" \in DOMAIN result /\ "text" \in DOMAIN result

----------------------------------------------------------------------------
(* C15 *)

\* the body of the k-th request is right for the invocation
C15_Body(k) ==
    LET args == invocation.args
        body == fetches[k].body
    IN  /\ DOMAIN body = {"q", "source", "target", "format"}
        /\ body.source = args.sourceLanguage
        /\ body.target = args.targetLanguage
        /\ body.format = "text"
        /\ IF "sourceScript" \in DOMAIN args /\ args.sourceScript = "Grantha"
           THEN /\ k = 2
                /\ fetches[1].method = "GET"
                /\ fetches[1].delivered
                /\ body.q = fetches[1].payload
           ELSE /\ k = 1
                /\ body.q = args.text

\* C15: the q field of the POST of translateText is the text the
\* transliteration sub-call returned when sourceScript is "Grantha", and the
\* text of the caller otherwise (sourceScript absent or another script), in
\* which case no transliteration request is issued; source, target and format
\* are sourceLanguage, targetLanguage and "text".
C15_Payload ==
    Invoked("translateText") =>
        /\ \A k \in 1..Len(fetches) : fetches[k].method = "POST" => C15_Body(k)
        /\ ~("sourceScript" \in DOMAIN invocation.args
             /\ invocation.args.sourceScript = "Grantha") => Count("GET") = 0

\* the sub-call gave a text that differs from the text of the caller
C15_Witness ==
    /\ Invoked("translateText")
    /\ "sourceScript" \in DOMAIN invocation.args
    /\ invocation.args.sourceScript = "Grantha"
    /\ Len(fetches) = 2
    /\ fetches[1].payload = <<" ", "k", " ">>
    /\ fetches[2].body.q = <<" ", "k", " ">>
    /\ invocation.args.text # fetches[2].body.q

\* another script: the text of the caller is posted and nothing else is asked
C15_WitnessOther ==
    /\ Invoked("translateText")
    /\ "sourceScript" \in DOMAIN invocation.args
    /\ invocation.args.sourceScript = "Tamil"
    /\ Len(fetches) = 1
    /\ fetches[1].body.q = invocation.args.text

----------------------------------------------------------------------------
(* C17 *)

\* the translation service answered 2xx with a document that was parsed
C17_Case ==
    /\ Returned("translateText")
    /\ Len(fetches) >= 1
    /\ fetches[Len(fetches)].method = "POST"
    /\ fetches[Len(fetches)].status \in 200..299
    /\ fetches[Len(fetches)].delivered

\* a result of translateText is a failure with a message or a success with a
\* string
C17_Shape(r) ==
    \/ "error" \in DOMAIN r /\ r.error # Undefined /\ r.error # <<>>
    \/ /\ "error" \notin DOMAIN r
       /\ "translatedText" \in DOMAIN r
       /\ r.translatedText # Undefined

\* C17: when the translation service answers 2xx with JSON, translateText
\* returns a success whose value is the translatedText field of the answer as
\* it is; and every value translateText returns is either a failure carrying
\* a message or a success carrying a string.
C17_SuccessOrFailure ==
    /\ C17_Case => result = [translatedText |->
                                Get(fetches[Len(fetches)].payload, "translatedText")]
    /\ Returned("translateText") => C17_Shape(result)

\* a 2xx answer without the field: the value returned carries undefined
C17_Undefined ==
    /\ C17_Case
    /\ "translatedText" \notin DOMAIN fetches[Len(fetches)].payload
    /\ result = [translatedText |-> Undefined]

----------------------------------------------------------------------------
(* C18 *)

\* C18: no function retries.  One invocation of transliterateText issues at
\* most one GET and nothing else, one invocation of extractTextFromImage at
\* most one POST and nothing else, and one invocation of translateText at most
\* one GET (of the transliteration) and at most one POST (of the
\* translation), whatever the answers are.
C18_NoRetry ==
    /\ Invoked("transliterateText") => Count("GET") <= 1 /\ Count("POST") = 0
    /\ Invoked("extractTextFromImage") => Count("POST") <= 1 /\ Count("GET") = 0
    /\ Invoked("translateText") => Count("GET") <= 1 /\ Count("POST") <= 1
    /\ Len(fetches) = Count("GET") + Count("POST")

\* a request of transliterateText has failed, and the function has returned
\* with that one request made
C18_Witness ==
    /\ Returned("transliterateText")
    /\ Count("GET") = 1
    /\ fetches[1].rejected
    /\ "error" \in DOMAIN result

\* translateText has returned a failure after a GET and a POST, one of each
C18_WitnessTranslate ==
    /\ Returned("translateText")
    /\ Count("GET") = 1 /\ Count("POST") = 1
    /\ NonOk(fetches[2].status)
    /\ "error" \in DOMAIN result

----------------------------------------------------------------------------
(* C19 *)

\* what the transport recorded of the requests of an invocation, in the order
\* the invocation made them
C19_OwnLog(c) == [k \in 1..Len(c.issued) |-> fetches[c.issued[k]]]

\* What each function returns, as a function of its arguments and of the
\* answers to its own requests alone.
C19_Transliterate(args, get) ==
    IF get.delivered
    THEN [transliteratedText |-> get.payload]
    ELSE [transliteratedText |-> <<>>,
          error |-> <<"An error occurred during transliteration. Please try again.">>]

C19_Post(post) ==
    IF post.delivered
    THEN [translatedText |-> IF "translatedText" \in DOMAIN post.payload
                             THEN post.payload.translatedText
                             ELSE Undefined]
    ELSE [translatedText |-> <<>>,
          error |-> <<"An error occurred during translation. Please try again.">>]

C19_Translate(args, own) ==
    IF "sourceScript" \in DOMAIN args /\ args.sourceScript = "Grantha"
    THEN LET sub == C19_Transliterate(args, own[1])
         IN  IF "error" \in DOMAIN sub
             THEN [translatedText |-> <<>>, error |-> sub.error]
             ELSE C19_Post(own[2])
    ELSE C19_Post(own[1])

C19_Extract(post) ==
    IF post.delivered
    THEN [text |-> IF "grantha_text" \in DOMAIN post.payload
                   THEN post.payload.grantha_text ELSE <<>>]
    ELSE IF post.rejected
    THEN [text |-> <<>>,
          error |-> IF post.thrown.isError
                    THEN post.thrown.message
                    ELSE <<"Failed to extract text. Please try another image.">>]
    ELSE [text |-> <<>>,
          error |-> <<"API error: ", ToString(post.status), " ",
                      StatusText(post.status)>>]

C19_Expected(inv, own) ==
    CASE inv.fn = "transliterateText" -> C19_Transliterate(inv.args, own[1])
      [] inv.fn = "translateText" -> C19_Translate(inv.args, own)
      [] inv.fn = "extractTextFromImage" -> C19_Extract(own[1])

\* the requests an invocation made follow from its arguments and from the
\* answers to its own earlier requests
C19_Requests(inv, own) ==
    CASE inv.fn = "transliterateText" ->
            /\ Len(own) = 1
            /\ own[1].url = apiUrl(inv.args.text, inv.args.sourceScript,
                                   inv.args.targetScript, <<>>)
      [] inv.fn = "translateText" ->
            /\ Len(own) \in 1..2
            /\ own[Len(own)].method = "POST" =>
                   own[Len(own)].body.q = IF Len(own) = 2 THEN own[1].payload
                                          ELSE inv.args.text
      [] inv.fn = "extractTextFromImage" ->
            /\ Len(own) = 1
            /\ own[1].body = [image |-> inv.args.file]
      [] inv.fn = "none" -> own = <<>>

C19_Alone(c) ==
    /\ C19_Requests(c.invocation, C19_OwnLog(c))
    /\ c.outcome = "returned" =>
           /\ \A k \in 1..Len(c.issued) : fetches[c.issued[k]].state = "done"
           /\ c.result = C19_Expected(c.invocation, C19_OwnLog(c))

\* C19: invocations of transliterateText, translateText and
\* extractTextFromImage in flight at the same time do not interfere.  Under
\* every interleaving of their requests and of the answers, what each
\* invocation asks and what it returns follows from its own arguments and from
\* the answers to its own requests alone; no request belongs to both.
C19_NoInterference ==
    /\ C19_Alone(Running)
    /\ C19_Alone(parked)
    /\ \A k \in 1..Len(issued), l \in 1..Len(parked.issued) :
           issued[k] # parked.issued[l]

\* translateText and transliterateText side by side, their requests
\* interleaved: both have returned, each with the answer to its own request
C19_Witness ==
    /\ outcome = "returned" /\ parked.outcome = "returned"
    /\ invocation.fn = "translateText" /\ parked.invocation.fn = "transliterateText"
    /\ issued = <<1, 3>> /\ parked.issued = <<2>>
    /\ fetches[1].payload = <<"k">> /\ fetches[2].payload = <<>>
    /\ result = [translatedText |-> <<"k">>]
    /\ parked.result = [transliteratedText |-> <<>>]

----------------------------------------------------------------------------
(* C20 *)

\* a call of predictCharacter made without a model has failed at once
C20_FailedFast(p) ==
    /\ p.state = "settled"
    /\ ~p.inferred
    /\ p.result = [error |-> <<"Model not loaded">>]

\* handlePredict calls predictCharacter in this step
C20_HandlerCalls ==
    /\ Len(predicts') = Len(predicts) + 1
    /\ predicts'[Len(predicts')].caller = "handlePredict"

\* C20: predictCharacter invoked before loadModel has resolved successfully
\* returns the failure "Model not loaded" and attempts no inference and no
\* network call; and handlePredict never invokes predictCharacter while
\* isModelLoaded is false.
C20_ModelNotLoaded ==
    /\ [](/\ \A k \in DOMAIN predicts : ~predicts[k].loaded => C20_FailedFast(predicts[k])
          /\ fetches = <<>>
          /\ isModelLoaded => model # NoModel)
    /\ [][C20_HandlerCalls => isModelLoaded]_vars

\* loading has failed; a caller's predictCharacter has failed at once, and
\* handlePredict, with an image in place, has answered "Model Not Ready"
C20_Witness ==
    /\ initModel = "done" /\ ~isModelLoaded /\ model = NoModel
    /\ imagePreview # NoImage
    /\ Len(predicts) = 1
    /\ predicts[1].caller = "caller"
    /\ C20_FailedFast(predicts[1])
    /\ toasted = "Model Not Ready"

\* with the model loaded, handlePredict has called predictCharacter
C20_WitnessLoaded ==
    /\ isModelLoaded
    /\ \E k \in DOMAIN predicts :
           predicts[k].caller = "handlePredict" /\ predicts[k].inferred

----------------------------------------------------------------------------
(* C30 *)

\* the text of a result of fn
C30_Text(fn, r) ==
    CASE fn = "transliterateText" -> r.transliteratedText
      [] fn = "translateText" -> r.translatedText
      [] fn = "extractTextFromImage" -> r.text

\* C30: every result transliterateText, translateText or extractTextFromImage
\* returns that carries an error has the empty string as its text, and every
\* result with a text that is not empty carries no error.
C30_ValueOrError ==
    outcome = "returned" =>
        /\ "error" \in DOMAIN result => C30_Text(invocation.fn, result) = <<>>
        /\ C30_Text(invocation.fn, result) # <<>> => "error" \notin DOMAIN result

\* a failure whose message came from the error thrown
C30_Witness ==
    /\ Returned("extractTextFromImage")
    /\ Len(fetches) = 1 /\ fetches[1].rejected
    /\ result = [text |-> <<>>, error |-> <<"Failed to fetch">>]

\* a success with a text
C30_WitnessValue ==
    /\ Returned("translateText")
    /\ result = [translatedText |-> <<"k">>]

----------------------------------------------------------------------------
(* C22 *)

\* C22: the simpler variants of the client are subsets of the full one.  For
\* all inputs and all answers of the services, the options-free
\* transliterateText behaves as the full transliterateText called with no
\* options, and the translateText without sourceScript behaves as the full
\* translateText called with sourceScript absent or not "Grantha": the same
\* requests, with the same answers read from them, and the same results.
C22_SameBehaviour ==
    variant.fn # "none" =>
        /\ variant.fn = invocation.fn
        /\ variant.fetches = fetches
        /\ (outcome = "returned") <=> (variant.pc = "returned")
        /\ outcome = "returned" => variant.result = result
        /\ outcome = "pending" => Len(stack) = 1 /\ stack[1].pc = variant.pc

\* both have asked for a text that had to be encoded, and returned the body
C22_Witness ==
    /\ variant.fn = "transliterateText" /\ variant.pc = "returned"
    /\ outcome = "returned"
    /\ invocation.args.text = <<"a", "&">>
    /\ "options" \in DOMAIN invocation.args
    /\ result = [transliteratedText |-> <<"k">>]
    /\ variant.result = result

\* both translations have returned, the full one called with a script
C22_WitnessTranslate ==
    /\ variant.fn = "translateText" /\ variant.pc = "returned"
    /\ outcome = "returned"
    /\ "sourceScript" \in DOMAIN invocation.args
    /\ result = [translatedText |-> <<"k">>]
    /\ variant.result = result

----------------------------------------------------------------------------
(* C21 *)

\* C21: downloadTextAsFile called with the empty text makes no file: no blob,
\* no link, no click.  Behind handleDownload, whatever the user did before, a
\* file is made only when outputText is not empty, and it holds outputText.
C21_NoEmptyDownload ==
    [][/\ CallDownloadTextAsFile(<<>>) => UNCHANGED downloads
       /\ handleDownload /\ downloads' # downloads =>
            /\ form.outputText # <<>>
            /\ downloads'[Len(downloads')].blob = form.outputText
       /\ downloads' # downloads =>
            /\ Len(downloads') = Len(downloads) + 1
            /\ downloads'[Len(downloads')].blob # <<>>
            /\ downloads'[Len(downloads')].clicked]_vars

\* handleDownload has made a file of the output
C21_Witness ==
    /\ toasted = "Download Started"
    /\ downloads # <<>>
    /\ downloads[Len(downloads)].blob = form.outputText

\* handleDownload was invoked without output, and no file was made
C21_WitnessNoOutput ==
    /\ toasted = "No Output"
    /\ downloads = <<>>
    /\ form.outputText = <<>>

----------------------------------------------------------------------------
(* C24 *)

\* a handler of the form has made this call and has not gone on after it
C24_InFlight(call) == call.invocation.fn \in {"transliterateText", "translateText"}

\* the requests the transport has not settled
C24_Open == {k \in 1..Len(fetches) : fetches[k].state # "done"}

\* C24: in the form at most one client operation, transliterate or translate,
\* is in flight at any time.  While one is, isProcessing is true, which
\* disables the process button: no clicks and tab switches start a second one
\* before the first has settled, and the transport never has two requests of
\* the form open.
C24_OneInFlight ==
    /\ ~(C24_InFlight(Running) /\ C24_InFlight(parked))
    /\ C24_InFlight(Running) \/ C24_InFlight(parked) => form.isProcessing
    /\ Cardinality(C24_Open) <= 1

\* the user has switched the tab and changed the text while a request of the
\* form is open, and the event loop has turned to the next event
C24_Witness ==
    /\ C24_InFlight(parked)
    /\ parked.outcome = "pending"
    /\ Cardinality(C24_Open) = 1
    /\ form.activeTab # "transliterate"
    /\ parked.invocation.fn = "transliterateText"
    /\ form.inputText # parked.invocation.args.text

----------------------------------------------------------------------------
(* C27 *)

\* the call of the handler has returned a result without an error
C27_Success ==
    /\ outcome = "returned"
    /\ ~("error" \in DOMAIN result /\ result.error # <<>>)

\* C27: outputText changes, and onTransliterationComplete is called, only on
\* a result without error, and then with the text of the result.  A
\* transliterate or translate action that ends in an error result or a thrown
\* exception, or that is rejected for empty input, leaves outputText as it
\* was and does not call onTransliterationComplete.
C27_OutputOnSuccessOnly ==
    [][form'.outputText # form.outputText \/ processedText' # processedText =>
         /\ C27_Success
         /\ invocation.fn = "transliterateText" =>
                form'.outputText = result.transliteratedText
         /\ invocation.fn = "translateText" =>
                form'.outputText = result.translatedText]_vars

\* a transliteration has ended in an error result, after one that had given
\* the output
C27_Witness ==
    /\ toasted = "Transliteration Error"
    /\ ~form.isProcessing
    /\ form.outputText = <<"k">>
    /\ processedText = <<"k">>

\* an action was rejected for empty input, after one that had given the output
C27_WitnessEmpty ==
    /\ toasted = "Empty Text"
    /\ form.outputText = <<"k">>

----------------------------------------------------------------------------
(* C28 *)

\* C28: after any sequence of transliterate and translate actions on the
\* mounted form, processedText of the page is outputText of the form: both
\* start empty, and a successful action sets both to the text returned.
C28_ProcessedIsOutput == processedText = form.outputText

\* a translation has set both
C28_Witness ==
    /\ toasted = "Translation Complete"
    /\ form.outputText = <<"k">>
    /\ processedText = <<"k">>

----------------------------------------------------------------------------
(* C29 *)

\* the requests the invocation has handed to fetch, in their order
C29_Issued(k) == fetches[issued[k]]

\* C29: handleTranslate passes the text and the script selected on the
\* Transliterate tab.  When that script is "Grantha", a Translate action on
\* non-empty input issues the transliteration request of the input, to the
\* intermediate script of the source language, and no translation request
\* before that one is answered; with another script the translation request
\* is the first request, and carries the input as it is.
C29_ScriptPassed ==
    /\ [][invocation.fn = "none" /\ invocation'.fn = "translateText" =>
            /\ invocation'.args.text = form.inputText
            /\ "sourceScript" \in DOMAIN invocation'.args
            /\ invocation'.args.sourceScript = form.sourceScript
            /\ Len(issued') = 1
            /\ fetches'[issued'[1]].method =
                   IF form.sourceScript = "Grantha" THEN "GET" ELSE "POST"]_vars
    /\ [](invocation.fn = "translateText" =>
            \A k \in 1..Len(issued) :
                IF /\ "sourceScript" \in DOMAIN invocation.args
                   /\ invocation.args.sourceScript = "Grantha"
                THEN /\ k <= 2
                     /\ C29_Issued(1).method = "GET"
                     /\ C29_Issued(1).url =
                            apiUrl(invocation.args.text, "Grantha",
                                   intermediateScript(invocation.args.sourceLanguage),
                                   <<>>)
                     /\ k = 2 => /\ C29_Issued(2).method = "POST"
                                 /\ C29_Issued(1).delivered
                                 /\ C29_Issued(2).body.q = C29_Issued(1).payload
                ELSE /\ k = 1
                     /\ C29_Issued(1).method = "POST"
                     /\ C29_Issued(1).body.q = invocation.args.text)

\* with the script of the mounted form, a Translate action has issued the
\* translation request after the transliteration request
C29_Witness ==
    /\ invocation.fn = "translateText"
    /\ form.sourceScript = FormMounted.sourceScript
    /\ invocation.args.sourceScript = "Grantha"
    /\ invocation.args.sourceLanguage # FormMounted.sourceLanguage
    /\ Len(issued) = 2
    /\ C29_Issued(2).method = "POST"

\* with another script the translation request carries the input
C29_WitnessPlain ==
    /\ invocation.fn = "translateText"
    /\ invocation.args.sourceScript = "Tamil"
    /\ Len(issued) = 1
    /\ C29_Issued(1).method = "POST"
    /\ C29_Issued(1).body.q = <<"a">>

----------------------------------------------------------------------------
(* C25 *)

\* C25: in the text extraction section, a text that appears as extractedText
\* is the result of the extraction of the file selected then: the answer for
\* a file selected before does not become the text shown.
C25_TextOfSelectedFile ==
    [][/\ extraction'.extractedText # extraction.extractedText
       /\ extraction'.extractedText # <<>>
       => invocation.args.file = extraction.file]_vars

----------------------------------------------------------------------------
(* C26 *)

\* C26: once no file is being read, imagePreview is the data URL of the file
\* selected last.
C26_PreviewOfSelectedFile ==
    extraction.reading = <<>> /\ extraction.file # NoFile =>
        extraction.imagePreview = dataURL(extraction.file)

----------------------------------------------------------------------------
(* C23 *)

\* C23: when handleTransliterate, handleTranslate or handleExtractText has set
\* its processing flag and the client call settles, the flag returns to false
\* in the end, on every path: a result, an error result, a thrown exception.
C23_ProcessingEnds ==
    /\ form.isProcessing ~> ~form.isProcessing
    /\ extraction.isProcessing ~> ~extraction.isProcessing

\* handleExtractText has reset the flag on its error branch, and
\* handleTranslate sets it now
C23_Witness ==
    /\ toasted = "Extraction Error"
    /\ ~extraction.isProcessing
    /\ form.isProcessing
    /\ invocation.fn = "translateText"

\* handleTransliterate has reset the flag after an error result
C23_WitnessForm ==
    /\ toasted = "Transliteration Error"
    /\ ~form.isProcessing

====
